---- MODULE Spec2Model ----
(***************************************************************************)
(* A state-machine model of the concepts of the casting-network backend:   *)
(* every concept owns document collections (sequences of records, in       *)
(* document order), and each concept operation is one action.  lastOp      *)
(* records the operation that ran last and what it returned or threw.      *)
(***************************************************************************)
EXTENDS Integers, Sequences, FiniteSets, TLC

\* ---------------------------------------------------------------- bounds
NumUsers == 2
MaxRequests == 2
MaxInflight == 2
NumPosts == 2
MaxTags == 2
MaxApplause == 4
MaxVotes == 3
MaxOpps == 1
MaxDate == 3
MaxNow == 21
MaxQueued == 2
MaxApps == 2
MaxCapacity == 2
MaxCategories == 1
MaxScore == 5
MaxDebt == 1
MaxRoutePosts == 1
MaxRouteTags == 1
MaxUsers == 2
MaxChallenges == 3
MaxQueues == 2
MaxListed == 1
MaxMedia == 2
MaxCalls == 2
MaxRaceVotes == 2
MaxPosted == 2
MaxAccepted == 2

Users == 1..NumUsers
Posts == 1..NumPosts

\* The value of an absent field / a null reference: equal to no ObjectId.
Null == 0

VARIABLES
    connection,   \* ConnectionConcept.connection: Seq of [user1, user2]
    requests,     \* ConnectionConcept.requests: Seq of [from, to, status]
    inflight,     \* inserts issued with `void` and not yet applied by the store
    tags,         \* TagConcept.tags: Seq of [tagger, tagged, post]
    applauses,    \* ApplauseConcept.applauses: Seq of [user, value], value in half points
    votes,        \* VoteConcept.votes: Seq of [user, parent, upvote]
    posts,        \* FocusedPostConcept.posts: Seq of [_id, author]
    opportunities,\* OpportunityConcept.opportunities: Seq of OpportunityDoc
    opCreated,    \* number of opportunities created so far (the last _id handed out)
    now,          \* the clock (new Date()), in days
    queues,       \* QueueConcept.queues: Seq of QueueDoc, times in hours
    progressLog,  \* per queueFor, the `current` each progressQueue returned since create
    applications, \* ApplicationConcept.applications: Seq of ApplicationDoc
    practiceFolders, \* FolderConcept.practiceFolders: Seq of PraticeFolderDoc
    capacity,     \* FolderConcept.capacity
    users,        \* UserConcept.users: Seq of UserDoc
    categories,   \* FocusedPostConcept.categories: Seq of [_id, name]
    created,      \* number of ObjectIds handed out: [posts, categories, users, challenges]
    proposed,     \* ChallengeConcept.proposed: Seq of ChallengeDoc
    posted,       \* ChallengeConcept.posted: Seq of ChallengeDoc
    portfolios,   \* PortfolioConcept.portfolios: Seq of [user, media]
    calls,        \* the calls in progress, each at an await: Seq of [op, args, read]
    credited,     \* per user, the sum of the amounts of the Applause.update calls completed
    lastOp        \* the last completed operation: [op, args, res, err, ret]

vars == <<connection, requests, inflight, tags, applauses, votes, posts,
          opportunities, opCreated, now, queues, progressLog, applications,
          practiceFolders, capacity, users, categories, created,
          proposed, posted, portfolios, calls, credited, lastOp>>

\* What each concept's operations leave alone: the other concepts' collections.
notConnection == <<tags, applauses, votes, posts, opportunities, opCreated, now, queues, progressLog, applications, practiceFolders, capacity, users, categories, created, proposed, posted, portfolios, calls, credited>>
notTag == <<connection, requests, inflight, applauses, votes, posts, opportunities, opCreated, now, queues, progressLog, applications, practiceFolders, capacity, users, categories, created, proposed, posted, portfolios, calls, credited>>
notApplause == <<connection, requests, inflight, tags, votes, posts, opportunities, opCreated, now, queues, progressLog, applications, practiceFolders, capacity, users, categories, created, proposed, posted, portfolios, calls, credited>>
notVote == <<connection, requests, inflight, tags, opportunities, opCreated, now, queues, progressLog, applications, practiceFolders, capacity, users, categories, created, proposed, posted, portfolios, calls, credited>>
notQueue == <<connection, requests, inflight, tags, applauses, votes, posts, opportunities, opCreated, now, applications, practiceFolders, capacity, users, categories, created, proposed, posted, portfolios, calls, credited>>
notApplication == <<connection, requests, inflight, tags, applauses, votes, posts, opportunities, opCreated, now, queues, progressLog, practiceFolders, capacity, users, categories, created, proposed, posted, portfolios, calls, credited>>
notFolder == <<connection, requests, inflight, tags, applauses, votes, posts, opportunities, opCreated, now, queues, progressLog, applications, users, categories, created, proposed, posted, portfolios, calls, credited>>
notRoutes == <<connection, requests, inflight, votes, opportunities, opCreated, now, queues, progressLog, applications, capacity, proposed, posted, portfolios, calls, credited>>
notUser == <<connection, requests, inflight, tags, applauses, votes, posts, opportunities, opCreated, now, queues, progressLog, applications, practiceFolders, capacity, categories, proposed, posted, portfolios, calls, credited>>
notChallenge == <<connection, requests, inflight, tags, applauses, votes, posts, opportunities, opCreated, now, queues, progressLog, applications, practiceFolders, capacity, users, categories, portfolios, calls, credited>>
notPortfolio == <<connection, requests, inflight, tags, applauses, votes, posts, opportunities, opCreated, now, queues, progressLog, applications, practiceFolders, capacity, users, categories, created, proposed, posted, calls, credited>>
notVoteCalls == <<connection, requests, inflight, tags, applauses, posts, opportunities, opCreated, now, queues, progressLog, applications, practiceFolders, capacity, users, categories, created, proposed, posted, portfolios, credited>>
notQueueCalls == <<connection, requests, inflight, tags, applauses, votes, posts, opportunities, opCreated, now, applications, practiceFolders, capacity, users, categories, created, proposed, posted, portfolios, credited>>
notApplauseCalls == <<connection, requests, inflight, tags, votes, posts, opportunities, opCreated, now, queues, progressLog, applications, practiceFolders, capacity, users, categories, created, proposed, posted, portfolios>>
notOpportunity == <<connection, requests, inflight, tags, applauses, votes, posts, queues, progressLog, applications, practiceFolders, capacity, users, categories, created, proposed, posted, portfolios, calls, credited>>

\* ------------------------------------------------- collection primitives
\* A document's field, Null when the document has no such field (a query on
\* an absent field matches no ObjectId).
Field(doc, name) == IF name \in DOMAIN doc THEN doc[name] ELSE Null

\* The first of the indices S of matching documents, in document order;
\* 0 when no document matches (readOne returns null).
First(S) == IF S = {} THEN 0 ELSE CHOOSE i \in S : \A j \in S : i <= j

\* coll without its i-th document.
RemoveAt(coll, i) == SubSeq(coll, 1, i - 1) \o SubSeq(coll, i + 1, Len(coll))

Range(s) == {s[i] : i \in 1..Len(s)}

Done(op, args, res, err, ret) ==
    [op |-> op, args |-> args, res |-> res, err |-> err, ret |-> ret]

\* No operation has completed yet, or the caller has dropped the last result.
Idle == Done("idle", <<>>, "ok", "", Null)

\* The caller drops the result of the last operation.
forget ==
    /\ lastOp # Idle
    /\ lastOp' = Idle

\* ------------------------------------------------------------ Connection
\* readOne of isNotConnected: the filter names the fields `from` and `to`.
ConnectedFilter(c, u1, u2) ==
    \/ Field(c, "from") = u1 /\ Field(c, "to") = u2
    \/ Field(c, "from") = u2 /\ Field(c, "to") = u1

\* isNotConnected passes (does not throw).
isNotConnected(u1, u2) ==
    /\ First({k \in 1..Len(connection) : ConnectedFilter(connection[k], u1, u2)}) = 0
    /\ u1 # u2

\* canSendRequest's filter with the status left out.
AnyRequestBetween(r, u1, u2) ==
    r.from \in {u1, u2} /\ r.to \in {u1, u2}

\* canSendRequest's filter looking one way only, from u1 to u2.
PendingOneWay(r, u1, u2) ==
    r.from = u1 /\ r.to = u2 /\ r.status = "pending"

\* The pending request canSendRequest looks for: between u1 and u2, either way.
PendingBetween(r, u1, u2) ==
    r.from \in {u1, u2} /\ r.to \in {u1, u2} /\ r.status = "pending"

\* "ok", or the error canSendRequest throws.
canSendRequest(u1, u2) ==
    IF ~isNotConnected(u1, u2) THEN "AlreadyConnectedError"
    ELSE IF First({k \in 1..Len(requests) : PendingBetween(requests[k], u1, u2)}) # 0
         THEN "ConnectionRequestAlreadyExistsError"
         ELSE "ok"

\* removePendingRequest's filter with the status left out.
PendingIdxAnyStatus(from, to) ==
    First({k \in 1..Len(requests) : requests[k].from = from /\ requests[k].to = to})

\* Index of the pending request from -> to that removePendingRequest pops.
PendingIdx(from, to) ==
    First({k \in 1..Len(requests) : requests[k].from = from /\ requests[k].to = to /\ requests[k].status = "pending"})

\* A Connection row joins u1 and u2 (either ordering).
Joins(c, u1, u2) ==
    \/ c.user1 = u1 /\ c.user2 = u2
    \/ c.user1 = u2 /\ c.user2 = u1

\* getConnections(user): the other party of every row touching user.
getConnections(user) ==
    LET rows == SelectSeq(connection, LAMBDA c : c.user1 = user \/ c.user2 = user)
    IN  [i \in 1..Len(rows) |-> IF rows[i].user1 = user THEN rows[i].user2 ELSE rows[i].user1]

\* Room left for one more request document, counting inserts in flight.
RequestsRoom ==
    Len(requests) + Cardinality({i \in 1..Len(inflight) : inflight[i].coll = "requests"}) < MaxRequests

sendRequest(from, to) ==
    LET e == canSendRequest(from, to)
        was == \E i \in 1..Len(connection) : Joins(connection[i], from, to)
    IN  /\ RequestsRoom
        /\ IF e = "ok"
           THEN /\ requests' = Append(requests, [from |-> from, to |-> to, status |-> "pending"])
                /\ lastOp' = Done("sendRequest", <<from, to>>, "ok", "", was)
           ELSE /\ requests' = requests
                /\ lastOp' = Done("sendRequest", <<from, to>>, "NotAllowed", e, was)
        /\ UNCHANGED <<connection, inflight>>

\* acceptRequest awaits the pop of the pending request only; the two inserts
\* are issued with `void` and the method returns without waiting for them.
acceptRequest(from, to) ==
    LET i == PendingIdx(from, to)
    IN  IF i = 0
        THEN /\ lastOp' = Done("acceptRequest", <<from, to>>, "NotFound", "ConnectionRequestNotFoundError", Null)
             /\ UNCHANGED <<connection, requests, inflight>>
        ELSE /\ Len(inflight) + 2 <= MaxInflight
             /\ requests' = RemoveAt(requests, i)
             /\ inflight' = inflight \o
                    << [coll |-> "requests", doc |-> [from |-> from, to |-> to, status |-> "accepted"]],
                       [coll |-> "connection", doc |-> [user1 |-> from, user2 |-> to]] >>
             /\ lastOp' = Done("acceptRequest", <<from, to>>, "ok", "", Null)
             /\ UNCHANGED connection

\* The store applies one of the inserts acceptRequest left in flight.
applyInsert(i) ==
    /\ i \in 1..Len(inflight)
    /\ IF inflight[i].coll = "requests"
       THEN /\ requests' = Append(requests, inflight[i].doc)
            /\ UNCHANGED connection
       ELSE /\ connection' = Append(connection, inflight[i].doc)
            /\ UNCHANGED requests
    /\ inflight' = RemoveAt(inflight, i)
    /\ UNCHANGED lastOp

rejectRequest(from, to) ==
    LET i == PendingIdx(from, to)
    IN  /\ IF i = 0
           THEN /\ lastOp' = Done("rejectRequest", <<from, to>>, "NotFound", "ConnectionRequestNotFoundError", Null)
                /\ UNCHANGED requests
           ELSE /\ requests' = Append(RemoveAt(requests, i), [from |-> from, to |-> to, status |-> "rejected"])
                /\ lastOp' = Done("rejectRequest", <<from, to>>, "ok", "", Null)
        /\ UNCHANGED <<connection, inflight>>

removeRequest(from, to) ==
    LET i == PendingIdx(from, to)
    IN  /\ IF i = 0
           THEN /\ lastOp' = Done("removeRequest", <<from, to>>, "NotFound", "ConnectionRequestNotFoundError", Null)
                /\ UNCHANGED requests
           ELSE /\ requests' = RemoveAt(requests, i)
                /\ lastOp' = Done("removeRequest", <<from, to>>, "ok", "", Null)
        /\ UNCHANGED <<connection, inflight>>

removeConnection(user, user2) ==
    LET i == First({k \in 1..Len(connection) : Joins(connection[k], user, user2)})
    IN  /\ IF i = 0
           THEN /\ lastOp' = Done("removeConnection", <<user, user2>>, "NotFound", "ConnectionNotFoundError", Null)
                /\ UNCHANGED connection
           ELSE /\ connection' = RemoveAt(connection, i)
                /\ lastOp' = Done("removeConnection", <<user, user2>>, "ok", "", Null)
        /\ UNCHANGED <<requests, inflight>>

InitConnection ==
    /\ connection = <<>>
    /\ requests = <<>>
    /\ inflight = <<>>

\* A caller makes its next call once the last result has been dropped, or
\* straight after a successful rejectRequest.
Ready == lastOp = Idle \/ (lastOp.op = "rejectRequest" /\ lastOp.res = "ok")

NextConnection ==
    \/ Ready /\ \E from, to \in Users : sendRequest(from, to) /\ UNCHANGED notConnection
    \/ Ready /\ \E from, to \in Users : acceptRequest(from, to) /\ UNCHANGED notConnection
    \/ Ready /\ \E from, to \in Users : rejectRequest(from, to) /\ UNCHANGED notConnection
    \/ Ready /\ \E from, to \in Users : removeRequest(from, to) /\ UNCHANGED notConnection
    \/ Ready /\ \E user, user2 \in Users : removeConnection(user, user2) /\ UNCHANGED notConnection
    \/ \E i \in 1..MaxInflight : applyInsert(i) /\ UNCHANGED notConnection
    \/ forget /\ UNCHANGED notConnection /\ UNCHANGED <<connection, requests, inflight>>


\* -------------------------------------------------------------------- Tag
\* tagExists's filter comparing the tagger field with the tagged user.
tagExistsByTagger(tagged, post) ==
    First({k \in 1..Len(tags) : tags[k].tagger = tagged /\ tags[k].post = post}) # 0

\* tagExists throws DuplicatedTagError: a tag is stored for (tagged, post).
tagExists(tagged, post) ==
    First({k \in 1..Len(tags) : tags[k].tagged = tagged /\ tags[k].post = post}) # 0

\* Tag.create; ret is the collection as it was before the call.
createTag(tagger, tagged, post) ==
    /\ Len(tags) < MaxTags
    /\ IF tagExists(tagged, post)
       THEN /\ tags' = tags
            /\ lastOp' = Done("Tag.create", <<tagger, tagged, post>>, "NotAllowed", "DuplicatedTagError", tags)
       ELSE /\ tags' = Append(tags, [tagger |-> tagger, tagged |-> tagged, post |-> post])
            /\ lastOp' = Done("Tag.create", <<tagger, tagged, post>>, "ok", "", tags)

\* A deleteTag without isTagger: the tag found by (tagged, post) is deleted
\* whoever user is.
deleteTagByAnyone(user, tagged, post) ==
    LET i == First({k \in 1..Len(tags) : tags[k].tagged = tagged /\ tags[k].post = post})
    IN  IF i = 0
        THEN /\ tags' = tags
             /\ lastOp' = Done("Tag.deleteTag", <<user, tagged, post>>, "BadValues", "BadValuesError", tags)
        ELSE /\ tags' = RemoveAt(tags, i)
             /\ lastOp' = Done("Tag.deleteTag", <<user, tagged, post>>, "ok", "", tags)

\* Tag.deleteTag: the tag is looked up by (tagged, post); isTagger then
\* compares its tagger with user.
deleteTag(user, tagged, post) ==
    LET i == First({k \in 1..Len(tags) : tags[k].tagged = tagged /\ tags[k].post = post})
    IN  IF i = 0
        THEN /\ tags' = tags
             /\ lastOp' = Done("Tag.deleteTag", <<user, tagged, post>>, "BadValues", "BadValuesError", tags)
        ELSE IF tags[i].tagger # user
        THEN /\ tags' = tags
             /\ lastOp' = Done("Tag.deleteTag", <<user, tagged, post>>, "NotAllowed", "TaggerNotMatchError", tags)
        ELSE /\ tags' = RemoveAt(tags, i)
             /\ lastOp' = Done("Tag.deleteTag", <<user, tagged, post>>, "ok", "", tags)

\* Tag.deleteUser: removes every tag by or for user.
deleteUserTags(user) ==
    /\ tags' = SelectSeq(tags, LAMBDA t : ~(t.tagged = user \/ t.tagger = user))
    /\ lastOp' = Done("Tag.deleteUser", <<user>>, "ok", "", tags)

\* Tag.deletePost: removes every tag on post.
deletePostTags(post) ==
    /\ tags' = SelectSeq(tags, LAMBDA t : t.post # post)
    /\ lastOp' = Done("Tag.deletePost", <<post>>, "ok", "", tags)

InitTag == tags = <<>>

NextTag ==
    \/ lastOp = Idle /\ \E tagger, tagged \in Users, post \in Posts : createTag(tagger, tagged, post) /\ UNCHANGED notTag
    \/ lastOp = Idle /\ \E user, tagged \in Users, post \in Posts : deleteTag(user, tagged, post) /\ UNCHANGED notTag
    \/ lastOp = Idle /\ \E user \in Users : deleteUserTags(user) /\ UNCHANGED notTag
    \/ lastOp = Idle /\ \E post \in Posts : deletePostTags(post) /\ UNCHANGED notTag
    \/ forget /\ UNCHANGED notTag /\ UNCHANGED tags

\* --------------------------------------------------------------- Applause
\* Amounts the routes pass to Applause.update, in half points
\* (0.5, 1, 2, 3, 5 and their negatives appear in routes.ts).
Amounts == {-6, -4, -2, -1, 1, 2, 4, 6}

\* Number(undefined), and every sum it enters: a value outside the range the
\* counters are kept in.
NaN == 10 * (MaxApplause + 1)

Plus(a, b) == IF a = NaN \/ b = NaN THEN NaN ELSE a + b

\* userExists's lookup under a field name the counters do not have.
userExistsWrongField(user) ==
    First({k \in 1..Len(applauses) : Field(applauses[k], "owner") = user}) # 0

\* userExists throws UserExistsError: user already has a counter.
userExists(user) ==
    First({k \in 1..Len(applauses) : applauses[k].user = user}) # 0

\* noCounter throws NoCounterError: user has no counter.
noCounter(user) ==
    First({k \in 1..Len(applauses) : applauses[k].user = user}) = 0

\* Applause.initialize; ret is the collection as it was before the call.
initialize(user) ==
    IF userExists(user)
    THEN /\ applauses' = applauses
         /\ lastOp' = Done("Applause.initialize", <<user>>, "NotAllowed", "UserExistsError", applauses)
    ELSE /\ applauses' = Append(applauses, [user |-> user, value |-> 0])
         /\ lastOp' = Done("Applause.initialize", <<user>>, "ok", "", applauses)

\* addValue: the first counter of user, plus amount, written to every field
\* the updateOne filter {user} selects first.
addValue(user, amount) ==
    LET i == First({k \in 1..Len(applauses) : applauses[k].user = user})
    IN  [applauses EXCEPT ![i].value = Plus(applauses[i].value, amount)]

\* Applause.update(user, amount); ret is the new value.
update(user, amount) ==
    IF noCounter(user)
    THEN /\ applauses' = applauses
         /\ lastOp' = Done("Applause.update", <<user, amount>>, "NotFound", "NoCounterError", Null)
    ELSE LET i == First({k \in 1..Len(applauses) : applauses[k].user = user})
         IN  /\ Plus(applauses[i].value, amount) \in ((-MaxApplause)..MaxApplause) \cup {NaN}
             /\ applauses' = addValue(user, amount)
             /\ lastOp' = Done("Applause.update", <<user, amount>>, "ok", "", Plus(applauses[i].value, amount))

\* Applause.delete(user): deleteOne removes the first counter of user.
deleteApplause(user) ==
    IF noCounter(user)
    THEN /\ applauses' = applauses
         /\ lastOp' = Done("Applause.delete", <<user>>, "NotFound", "NoCounterError", Null)
    ELSE /\ applauses' = RemoveAt(applauses, First({k \in 1..Len(applauses) : applauses[k].user = user}))
         /\ lastOp' = Done("Applause.delete", <<user>>, "ok", "", Null)

InitApplause == applauses = <<>>

NextApplause ==
    \/ \E user \in Users : initialize(user) /\ UNCHANGED notApplause
    \/ \E user \in Users, amount \in Amounts : update(user, amount) /\ UNCHANGED notApplause
    \/ \E user \in Users : deleteApplause(user) /\ UNCHANGED notApplause


\* ------------------------------------------------------------------- Vote
\* Vote.vote(user, parent, upvote): the collection it leaves and the object it
\* returns.
vote(user, parent, upvote) ==
    LET i == First({k \in 1..Len(votes) : votes[k].user = user /\ votes[k].parent = parent})
    IN  IF i # 0
        THEN IF votes[i].upvote = upvote
             THEN [votes |-> votes,
                   resp |-> [msg |-> "vote already exists with the same value", new |-> FALSE]]
             ELSE [votes |-> [votes EXCEPT ![i].upvote = upvote],
                   resp |-> [msg |-> "vote value updated", new |-> FALSE]]
        ELSE [votes |-> Append(votes, [user |-> user, upvote |-> upvote, parent |-> parent]),
              resp |-> [msg |-> "Vote successfully created!", new |-> TRUE]]

\* The polarity of user's stored vote on parent: "up", "down" or "none".
Polarity(user, parent) ==
    LET i == First({k \in 1..Len(votes) : votes[k].user = user /\ votes[k].parent = parent})
    IN  IF i = 0 THEN "none" ELSE IF votes[i].upvote THEN "up" ELSE "down"

\* The applause delta of a call that took the author's counter from a to b.
Delta(a, b) == IF a = NaN \/ b = NaN THEN NaN ELSE b - a

\* The route POST /vote: verifies the post, calls Vote.vote, then adds the
\* response's applausePoints to the post author's counter.  ret holds the
\* response, the polarity stored before the call (had), the change of the
\* author's counter (delta) and, when the previous operation was the same
\* call made with no vote stored, that call's delta (prev).
voteRoute(user, post, upvote) ==
    LET p == First({k \in 1..Len(posts) : posts[k]._id = post})
        r == vote(user, post, upvote)
        amount == IF "applausePoints" \in DOMAIN r.resp THEN r.resp.applausePoints ELSE NaN
        a == First({k \in 1..Len(applauses) : applauses[k].user = posts[p].author})
        again == /\ lastOp.op = "vote" /\ lastOp.res = "ok"
                 /\ lastOp.args = <<user, post, upvote>>
                 /\ lastOp.ret.had = "none"
    IN  IF p = 0
        THEN /\ lastOp' = Done("vote", <<user, post, upvote>>, "BadValues", "BadValuesError", Null)
             /\ UNCHANGED <<votes, applauses, posts>>
        ELSE /\ Len(votes) < MaxVotes
             /\ votes' = r.votes
             /\ UNCHANGED posts
             /\ IF a = 0
                THEN /\ lastOp' = Done("vote", <<user, post, upvote>>, "NotFound", "NoCounterError", Null)
                     /\ UNCHANGED applauses
                ELSE /\ applauses' = addValue(posts[p].author, amount)
                     /\ lastOp' = Done("vote", <<user, post, upvote>>, "ok", "",
                            [resp |-> r.resp,
                             had |-> Polarity(user, post),
                             delta |-> Delta(applauses[a].value, Plus(applauses[a].value, amount)),
                             prev |-> [same |-> again,
                                       delta |-> IF again THEN lastOp.ret.delta ELSE 0]])

\* Vote.delete(user, parent): deleteOne removes the first matching vote.
deleteVote(user, parent) ==
    LET i == First({k \in 1..Len(votes) : votes[k].user = user /\ votes[k].parent = parent})
    IN  /\ votes' = IF i = 0 THEN votes ELSE RemoveAt(votes, i)
        /\ lastOp' = Done("Vote.delete", <<user, parent>>, "ok", "", Null)
        /\ UNCHANGED <<applauses, posts>>

\* Vote.deleteUser(user): removes every vote of user.
deleteUserVotes(user) ==
    /\ votes' = SelectSeq(votes, LAMBDA v : v.user # user)
    /\ lastOp' = Done("Vote.deleteUser", <<user>>, "ok", "", Null)
    /\ UNCHANGED <<applauses, posts>>

\* Post ids the routes are called with: the posts, and one id that names none.
PostIds == 1..(NumPosts + 1)

\* The vote requests alone.
NextVoteRequests ==
    \E user \in Users, post \in PostIds, upvote \in BOOLEAN : voteRoute(user, post, upvote) /\ UNCHANGED notVote

NextVote ==
    \/ \E user \in Users, post \in PostIds, upvote \in BOOLEAN : voteRoute(user, post, upvote) /\ UNCHANGED notVote
    \/ \E user \in Users, parent \in Posts : deleteVote(user, parent) /\ UNCHANGED notVote
    \/ \E user \in Users : deleteUserVotes(user) /\ UNCHANGED notVote


\* ----------------------------------------------------- Vote, interleaved
\* The pair every racing call votes on, and the users that call.
RaceUsers == {1, 2}
RaceParent == 1

\* What readOne({ user, parent }) finds: the first stored vote of the pair as
\* a one-element list, the empty list when there is none (null).
readOneVote(user, parent) ==
    LET i == First({k \in 1..Len(votes) : votes[k].user = user /\ votes[k].parent = parent})
    IN  IF i = 0 THEN <<>> ELSE <<votes[i]>>

\* Vote.vote up to its first await: `await this.votes.readOne({ user, parent })`
\* is answered and the call waits to go on.
voteRead(user, parent, upvote) ==
    /\ Len(calls) < MaxCalls
    /\ Len(votes) + Len(calls) < MaxRaceVotes
    /\ calls' = Append(calls, [op |-> "Vote.vote", args |-> <<user, parent, upvote>>,
                               read |-> readOneVote(user, parent)])
    /\ UNCHANGED <<votes, lastOp>>

\* The write of a call re-reading the collection first: what vote does when
\* nothing runs between its read and its write.
voteStoreReread(c) == vote(c.args[1], c.args[2], c.args[3]).votes

\* The write of a call that read c.read: nothing, updateOne on the first vote
\* of the pair now stored, or createOne.
voteStore(c) ==
    LET i == First({k \in 1..Len(votes) : votes[k].user = c.args[1] /\ votes[k].parent = c.args[2]})
    IN  IF c.read # <<>>
        THEN IF c.read[1].upvote = c.args[3] \/ i = 0 THEN votes
             ELSE [votes EXCEPT ![i].upvote = c.args[3]]
        ELSE Append(votes, [user |-> c.args[1], upvote |-> c.args[3], parent |-> c.args[2]])

\* Vote.vote from its first await to its return, for the k-th call waiting:
\* ret holds what the call had read, the collection as it was before the
\* write, and the `new` of the response.
voteWrite(k) ==
    LET c == calls[k]
    IN  /\ c.op = "Vote.vote"
        /\ votes' = voteStore(c)
        /\ calls' = RemoveAt(calls, k)
        /\ lastOp' = Done("Vote.vote", c.args, "ok", "",
                          [read |-> c.read, pre |-> votes, new |-> c.read = <<>>])

NextVoteCalls ==
    \/ \E user \in RaceUsers, upvote \in BOOLEAN : voteRead(user, RaceParent, upvote) /\ UNCHANGED notVoteCalls
    \/ \E k \in 1..Len(calls) : voteWrite(k) /\ UNCHANGED notVoteCalls
    \/ \E user \in RaceUsers : deleteVote(user, RaceParent) /\ UNCHANGED notVote /\ UNCHANGED calls

\* -------------------------------------------------- Applause, interleaved
\* The amounts the racing calls add, in half points.
RaceAmounts == {1, 2}

\* The sum of the amounts of the calls of user that are waiting.
RECURSIVE Waiting(_, _)
Waiting(cs, user) ==
    IF cs = <<>> THEN 0
    ELSE (IF Head(cs).args[1] = user THEN Head(cs).args[2] ELSE 0) + Waiting(Tail(cs), user)

\* getByUser: the first counter of user as a one-element list, the empty list
\* when there is none (null).
getByUser(user) ==
    LET i == First({k \in 1..Len(applauses) : applauses[k].user = user})
    IN  IF i = 0 THEN <<>> ELSE <<applauses[i]>>

\* addValue up to the return of `await this.getByUser(user)`: the counter is
\* read and the call waits to go on, or NoCounterError is thrown.  The sum of
\* the amounts asked for stays within MaxApplause.
addValueRead(user, amount) ==
    /\ Len(calls) < MaxCalls
    /\ credited[user] + Waiting(calls, user) + amount <= MaxApplause
    /\ IF getByUser(user) = <<>>
       THEN /\ lastOp' = Done("Applause.update", <<user, amount>>, "NotFound", "NoCounterError", Null)
            /\ UNCHANGED <<applauses, calls, credited>>
       ELSE /\ calls' = Append(calls, [op |-> "Applause.update", args |-> <<user, amount>>,
                                       read |-> getByUser(user)[1]])
            /\ UNCHANGED <<applauses, credited, lastOp>>

\* The value a call has to store: the value it read plus its amount.
newValue(c) == Plus(c.read.value, c.args[2])

\* addValue from the return of getByUser to its own return, for the k-th call
\* waiting: updateOne({ user }, { value: newValue }) on the first counter of
\* user; ret is the new value returned.
addValueWrite(k) ==
    LET c == calls[k]
        i == First({j \in 1..Len(applauses) : applauses[j].user = c.args[1]})
    IN  /\ c.op = "Applause.update"
        /\ calls' = RemoveAt(calls, k)
        /\ applauses' = IF i = 0 THEN applauses ELSE [applauses EXCEPT ![i].value = newValue(c)]
        /\ credited' = [credited EXCEPT ![c.args[1]] = @ + c.args[2]]
        /\ lastOp' = Done("Applause.update", c.args, "ok", "", newValue(c))

\* The counters are initialized once and stay stored; the update calls
\* interleave at their awaits.
NextApplauseCalls ==
    \/ \E user \in RaceUsers : initialize(user) /\ UNCHANGED notApplause /\ UNCHANGED <<calls, credited>>
    \/ \E user \in RaceUsers, amount \in RaceAmounts : addValueRead(user, amount) /\ UNCHANGED notApplauseCalls
    \/ \E k \in 1..Len(calls) : addValueWrite(k) /\ UNCHANGED notApplauseCalls

\* ------------------------------------------------------------ Opportunity
daysTillExpires == 14

\* Start and end dates, in days.
Dates == 1..MaxDate

\* Titles and descriptions: the empty string and a non-empty one.
Texts == {"", "text"}

\* checkDateValidity throws NotAllowedError.
\* checkDateValidity refusing only a start after the end.
checkDateValidityStrict(start, end) == start > end

checkDateValidity(start, end) == start >= end

\* Opportunity.create.  A Date object is always truthy, so of the required
\* inputs only an empty title or description is "missing".  ret is the
\* collection as it was before the call.
createOpportunity(user, title, description, startOn, endsOn) ==
    /\ opCreated < MaxOpps
    /\ UNCHANGED now
    /\ IF title = "" \/ description = ""
       THEN /\ lastOp' = Done("Opportunity.create", <<user, title, description, startOn, endsOn>>,
                              "BadValues", "BadValuesError", opportunities)
            /\ UNCHANGED <<opportunities, opCreated>>
       ELSE IF checkDateValidity(startOn, endsOn)
       THEN /\ lastOp' = Done("Opportunity.create", <<user, title, description, startOn, endsOn>>,
                              "NotAllowed", "NotAllowedError", opportunities)
            /\ UNCHANGED <<opportunities, opCreated>>
       ELSE /\ opCreated' = opCreated + 1
            /\ opportunities' = Append(opportunities,
                   [_id |-> opCreated + 1, user |-> user, title |-> title, description |-> description,
                    startOn |-> startOn, endsOn |-> endsOn,
                    expiresOn |-> now + daysTillExpires, isActive |-> TRUE])
            /\ lastOp' = Done("Opportunity.create", <<user, title, description, startOn, endsOn>>,
                              "ok", "", opportunities)

\* The fields sanitizeUpdate lets through, as the source lists them.
allowedUpdates == {"description", "startOn", "endOn", "requirements"}

\* sanitizeUpdate throws NotAllowedError: some key of update is not allowed.
sanitizeUpdate(upd) == \E key \in DOMAIN upd : key \notin allowedUpdates

\* Index of the opportunity with this _id, 0 when there is none.
opportunityExists(id) == First({k \in 1..Len(opportunities) : opportunities[k]._id = id})

\* opportunityByUser without its owner test.
opportunityByAnyUser(id, user) ==
    IF opportunityExists(id) = 0 THEN "OpportunityDoestExistError" ELSE "ok"

\* "ok", or the error opportunityByUser throws.
opportunityByUser(id, user) ==
    IF opportunityExists(id) = 0 THEN "OpportunityDoestExistError"
    ELSE IF opportunities[opportunityExists(id)].user # user THEN "NotOwnerError"
    ELSE "ok"

\* updateOne's $set: doc with the fields of upd written over it.
SetFields(doc, upd) ==
    [key \in DOMAIN doc \cup DOMAIN upd |-> IF key \in DOMAIN upd THEN upd[key] ELSE doc[key]]

\* The date check of update throws: whichever of the two dates update does not
\* supply is taken from the stored opportunity.
updateDatesInvalid(oldOp, upd) ==
    IF "startOn" \in DOMAIN upd /\ "endsOn" \in DOMAIN upd
    THEN checkDateValidity(upd.startOn, upd.endsOn)
    ELSE IF "startOn" \in DOMAIN upd
    THEN checkDateValidity(upd.startOn, oldOp.endsOn)
    ELSE IF "endsOn" \in DOMAIN upd
    THEN checkDateValidity(oldOp.startOn, upd.endsOn)
    ELSE FALSE

\* Opportunity.update(_id, user, update).
updateOpportunity(id, user, upd) ==
    LET i == opportunityExists(id)
        e == opportunityByUser(id, user)
    IN  /\ UNCHANGED <<opCreated, now>>
        /\ IF sanitizeUpdate(upd)
           THEN /\ lastOp' = Done("Opportunity.update", <<id, user, upd>>, "NotAllowed", "NotAllowedError: Cannot update field", opportunities)
                /\ UNCHANGED opportunities
           ELSE IF e # "ok"
           THEN /\ lastOp' = Done("Opportunity.update", <<id, user, upd>>, "NotAllowed", e, opportunities)
                /\ UNCHANGED opportunities
           ELSE IF updateDatesInvalid(opportunities[i], upd)
           THEN /\ lastOp' = Done("Opportunity.update", <<id, user, upd>>, "NotAllowed", "NotAllowedError: date range", opportunities)
                /\ UNCHANGED opportunities
           ELSE /\ opportunities' = [opportunities EXCEPT ![i] = SetFields(opportunities[i], upd)]
                /\ lastOp' = Done("Opportunity.update", <<id, user, upd>>, "ok", "", opportunities)

\* Opportunity.deactivate(_id, user): by the owner.
deactivateByUser(id, user) ==
    LET i == opportunityExists(id)
        e == opportunityByUser(id, user)
    IN  /\ UNCHANGED <<opCreated, now>>
        /\ IF e # "ok"
           THEN /\ lastOp' = Done("Opportunity.deactivate", <<id, user>>, "NotAllowed", e, opportunities)
                /\ UNCHANGED opportunities
           ELSE /\ opportunities' = [opportunities EXCEPT ![i] = SetFields(opportunities[i], [isActive |-> FALSE])]
                /\ lastOp' = Done("Opportunity.deactivate", <<id, user>>, "ok", "", opportunities)


\* The sweep with the expiry test the other way round (expiresOn >= now).
deactivateBySystemUnexpired(id) ==
    LET i == opportunityExists(id)
    IN  /\ UNCHANGED <<opCreated, now>>
        /\ IF i = 0
           THEN /\ lastOp' = Done("Opportunity.deactivate", <<id>>, "NotAllowed", "OpportunityDoestExistError", opportunities)
                /\ UNCHANGED opportunities
           ELSE IF opportunities[i].isActive /\ opportunities[i].expiresOn >= now
           THEN /\ opportunities' = [opportunities EXCEPT ![i] = SetFields(opportunities[i], [isActive |-> FALSE])]
                /\ lastOp' = Done("Opportunity.deactivate", <<id>>, "ok", "", opportunities)
           ELSE /\ lastOp' = Done("Opportunity.deactivate", <<id>>, "ok", "", opportunities)
                /\ UNCHANGED opportunities

\* Opportunity.deactivate(_id): the system's sweep, no user given.
deactivateBySystem(id) ==
    LET i == opportunityExists(id)
    IN  /\ UNCHANGED <<opCreated, now>>
        /\ IF i = 0
           THEN /\ lastOp' = Done("Opportunity.deactivate", <<id>>, "NotAllowed", "OpportunityDoestExistError", opportunities)
                /\ UNCHANGED opportunities
           ELSE IF opportunities[i].isActive /\ opportunities[i].expiresOn < now
           THEN /\ opportunities' = [opportunities EXCEPT ![i] = SetFields(opportunities[i], [isActive |-> FALSE])]
                /\ lastOp' = Done("Opportunity.deactivate", <<id>>, "ok", "", opportunities)
           ELSE /\ lastOp' = Done("Opportunity.deactivate", <<id>>, "ok", "", opportunities)
                /\ UNCHANGED opportunities

\* Opportunity.reactivate(_id, user).
reactivate(id, user) ==
    LET i == opportunityExists(id)
        e == opportunityByUser(id, user)
    IN  /\ UNCHANGED <<opCreated, now>>
        /\ IF e # "ok"
           THEN /\ lastOp' = Done("Opportunity.reactivate", <<id, user>>, "NotAllowed", e, opportunities)
                /\ UNCHANGED opportunities
           ELSE /\ opportunities' = [opportunities EXCEPT ![i] =
                       SetFields(opportunities[i], [isActive |-> TRUE, expiresOn |-> now + daysTillExpires])]
                /\ lastOp' = Done("Opportunity.reactivate", <<id, user>>, "ok", "", opportunities)

\* Opportunity.delete(_id, user).
deleteOpportunity(id, user) ==
    LET i == opportunityExists(id)
        e == opportunityByUser(id, user)
    IN  /\ UNCHANGED <<opCreated, now>>
        /\ IF e # "ok"
           THEN /\ lastOp' = Done("Opportunity.delete", <<id, user>>, "NotAllowed", e, opportunities)
                /\ UNCHANGED opportunities
           ELSE /\ opportunities' = RemoveAt(opportunities, i)
                /\ lastOp' = Done("Opportunity.delete", <<id, user>>, "ok", "", opportunities)

\* Opportunity.deactivateUser(user): every opportunity of user becomes inactive.
deactivateUser(user) ==
    /\ UNCHANGED <<opCreated, now>>
    /\ opportunities' = [k \in 1..Len(opportunities) |->
           IF opportunities[k].user = user
           THEN SetFields(opportunities[k], [isActive |-> FALSE])
           ELSE opportunities[k]]
    /\ lastOp' = Done("Opportunity.deactivateUser", <<user>>, "ok", "", opportunities)

\* Time passes, half the life of a listing at a time.
tick ==
    /\ now + (daysTillExpires \div 2) <= MaxNow
    /\ now' = now + (daysTillExpires \div 2)
    /\ UNCHANGED <<opportunities, opCreated, lastOp>>

\* The partial documents update is called with.
Updates ==
    {[startOn |-> d] : d \in Dates}
    \cup {[endsOn |-> d] : d \in Dates}
    \cup {[startOn |-> d[1], endsOn |-> d[2]] : d \in Dates \X Dates}
    \cup {[description |-> "text"], [title |-> "text"]}

\* Opportunity ids the operations are called with: one more than can exist.
OpIds == 1..(MaxOpps + 1)

InitOpportunity ==
    /\ opportunities = <<>>
    /\ opCreated = 0
    /\ now = 0

NextOpportunity ==
    \/ lastOp = Idle /\ \E user \in Users, title \in Texts, description \in Texts, startOn \in Dates, endsOn \in Dates :
           createOpportunity(user, title, description, startOn, endsOn) /\ UNCHANGED notOpportunity
    \/ lastOp = Idle /\ \E id \in OpIds, user \in Users, upd \in Updates : updateOpportunity(id, user, upd) /\ UNCHANGED notOpportunity
    \/ lastOp = Idle /\ \E id \in OpIds, user \in Users : deactivateByUser(id, user) /\ UNCHANGED notOpportunity
    \/ lastOp = Idle /\ \E id \in OpIds : deactivateBySystem(id) /\ UNCHANGED notOpportunity
    \/ lastOp = Idle /\ \E id \in OpIds, user \in Users : reactivate(id, user) /\ UNCHANGED notOpportunity
    \/ lastOp = Idle /\ \E id \in OpIds, user \in Users : deleteOpportunity(id, user) /\ UNCHANGED notOpportunity
    \/ lastOp = Idle /\ \E user \in Users : deactivateUser(user) /\ UNCHANGED notOpportunity
    \/ lastOp = Idle /\ tick /\ UNCHANGED notOpportunity
    \/ forget /\ UNCHANGED notOpportunity /\ UNCHANGED <<opportunities, opCreated, now>>

\* ----------------------------------------------------------------- Queue
\* Hours in a day: Date.setHours counts from the midnight of the date's day.
HoursPerDay == 24

\* The opportunities a queue can be for, the start times (00:00 and 09:00 of
\* day 0) and the hours per person that create is called with.
QueueFors == {1, 2}
StartTimes == {0, 9}
Durations == {1, 2}
Applicants == UNION {[1..n -> Users] : n \in 0..MaxQueued}

\* Index of the queue of this opportunity, 0 when there is none
\* (doesntExist throws NoQueueError).
doesntExist(queueFor) ==
    First({k \in 1..Len(queues) : queues[k].queueFor = queueFor})

\* alreadyExists finding no queue whatever is stored.
alreadyExistsNever(queueFor) == FALSE

\* alreadyExists throws DuplicateQueueError: the opportunity has a queue.
alreadyExists(queueFor) == doesntExist(queueFor) # 0

\* isManager throws NotManagerError.
isManager(user, queueManager) == queueManager # user

\* Array.indexOf, 1-based: 0 when user is not in queue.
indexOf(queue, user) ==
    First({k \in 1..Len(queue) : queue[k] = user})

\* Date.setHours(hours) on a date given in hours: the hour of the day is set,
\* hours past 23 roll over into the following days.
setHours(date, hours) == (date - (date % HoursPerDay)) + hours

\* progressQueue's test refusing the last applicant as well.
exhaustedOffByOne(queue, newPosition) == queue.totalQueued <= newPosition

\* progressQueue throws NotAllowedError: went through everyone in the queue.
exhausted(queue, newPosition) == queue.totalQueued < newPosition

\* Queue.create(queueManager, queueFor, queue, startTime, timePerPerson).
createQueue(queueManager, queueFor, queue, startTime, timePerPerson) ==
       IF alreadyExists(queueFor)
       THEN /\ lastOp' = Done("Queue.create", <<queueManager, queueFor, queue, startTime, timePerPerson>>,
                              "NotAllowed", "DuplicateQueueError", [pre |-> queues])
            /\ UNCHANGED <<queues, progressLog>>
       ELSE /\ queues' = Append(queues,
                   [queueManager |-> queueManager, queueFor |-> queueFor, queue |-> queue,
                    startTime |-> startTime, timePerPerson |-> timePerPerson,
                    currentPosition |-> 0, totalQueued |-> Len(queue)])
            /\ progressLog' = [progressLog EXCEPT ![queueFor] = <<>>]
            /\ lastOp' = Done("Queue.create", <<queueManager, queueFor, queue, startTime, timePerPerson>>,
                              "ok", "", [pre |-> queues])

\* Queue.getEstimatedTime(queueFor, user): ret is the estimated time.
getEstimatedTime(queueFor, user) ==
    LET i == doesntExist(queueFor)
        index == indexOf(queues[i].queue, user)
        posInQueue == index
        hrsFromStart == posInQueue * queues[i].timePerPerson
    IN  /\ UNCHANGED <<queues, progressLog>>
        /\ IF i = 0
           THEN lastOp' = Done("Queue.getEstimatedTime", <<queueFor, user>>, "NotFound", "NoQueueError", Null)
           ELSE IF index # 0
           THEN lastOp' = Done("Queue.getEstimatedTime", <<queueFor, user>>, "ok", "",
                               setHours(queues[i].startTime, hrsFromStart))
           ELSE lastOp' = Done("Queue.getEstimatedTime", <<queueFor, user>>, "NotAllowed", "NotInQueueError", Null)

\* Queue.progressQueue(user, queueFor): ret holds the collection before the
\* call and, on success, the current and next applicants returned.
progressQueue(user, queueFor) ==
    LET i == doesntExist(queueFor)
        queue == queues[i]
        newPosition == queue.currentPosition + 1
        current == queue.queue[newPosition]
        nextQueued == IF newPosition + 1 \in DOMAIN queue.queue THEN queue.queue[newPosition + 1] ELSE Null
    IN  IF i = 0
        THEN /\ lastOp' = Done("Queue.progressQueue", <<user, queueFor>>, "NotFound", "NoQueueError", [pre |-> queues])
             /\ UNCHANGED <<queues, progressLog>>
        ELSE IF isManager(user, queue.queueManager)
        THEN /\ lastOp' = Done("Queue.progressQueue", <<user, queueFor>>, "NotAllowed", "NotManagerError", [pre |-> queues])
             /\ UNCHANGED <<queues, progressLog>>
        ELSE IF exhausted(queue, newPosition)
        THEN /\ lastOp' = Done("Queue.progressQueue", <<user, queueFor>>, "NotAllowed",
                               "NotAllowedError: Went through everyone in queue", [pre |-> queues])
             /\ UNCHANGED <<queues, progressLog>>
        ELSE /\ queues' = [queues EXCEPT ![i].currentPosition = newPosition]
             /\ progressLog' = [progressLog EXCEPT ![queueFor] = Append(@, current)]
             /\ lastOp' = Done("Queue.progressQueue", <<user, queueFor>>, "ok", "",
                               [pre |-> queues, next |-> nextQueued, current |-> current])

\* Queue.delete(user, queueFor).
deleteQueue(user, queueFor) ==
    LET i == doesntExist(queueFor)
    IN  IF i = 0
        THEN /\ lastOp' = Done("Queue.delete", <<user, queueFor>>, "NotFound", "NoQueueError", [pre |-> queues])
             /\ UNCHANGED <<queues, progressLog>>
        ELSE IF isManager(user, queues[i].queueManager)
        THEN /\ lastOp' = Done("Queue.delete", <<user, queueFor>>, "NotAllowed", "NotManagerError", [pre |-> queues])
             /\ UNCHANGED <<queues, progressLog>>
        ELSE /\ queues' = RemoveAt(queues, i)
             /\ progressLog' = [progressLog EXCEPT ![queueFor] = <<>>]
             /\ lastOp' = Done("Queue.delete", <<user, queueFor>>, "ok", "", [pre |-> queues])

\* Queue.deleteAllManagerQueues(queueManager).
deleteAllManagerQueues(queueManager) ==
    LET kept(q) == q.queueManager # queueManager
    IN  /\ queues' = SelectSeq(queues, kept)
        /\ progressLog' = [f \in QueueFors |->
               IF \E k \in 1..Len(queues) : queues[k].queueFor = f /\ ~kept(queues[k])
               THEN <<>> ELSE progressLog[f]]
        /\ lastOp' = Done("Queue.deleteAllManagerQueues", <<queueManager>>, "ok", "", [pre |-> queues])

InitQueue ==
    /\ queues = <<>>
    /\ progressLog = [f \in QueueFors |-> <<>>]

\* One queue is stored at a time: a create that would store a second one is
\* not taken.
NextQueue ==
    \/ lastOp = Idle /\ \E queueManager \in Users, queueFor \in QueueFors, queue \in Applicants,
                          startTime \in StartTimes, timePerPerson \in Durations :
           /\ alreadyExists(queueFor) \/ queues = <<>>
           /\ createQueue(queueManager, queueFor, queue, startTime, timePerPerson) /\ UNCHANGED notQueue
    \/ lastOp = Idle /\ \E queueFor \in QueueFors, user \in Users : getEstimatedTime(queueFor, user) /\ UNCHANGED notQueue
    \/ lastOp = Idle /\ \E user \in Users, queueFor \in QueueFors : progressQueue(user, queueFor) /\ UNCHANGED notQueue
    \/ lastOp = Idle /\ \E user \in Users, queueFor \in QueueFors : deleteQueue(user, queueFor) /\ UNCHANGED notQueue
    \/ lastOp = Idle /\ \E queueManager \in Users : deleteAllManagerQueues(queueManager) /\ UNCHANGED notQueue
    \/ forget /\ UNCHANGED notQueue /\ UNCHANGED <<queues, progressLog>>

\* The applicant lists of up to MaxListed users.
ShortLists == UNION {[1..n -> Users] : n \in 0..MaxListed}

\* The same operations with up to MaxQueues queues stored at a time, every
\* queue starting at 00:00 of day 0 with one hour per person.
NextQueues ==
    \/ lastOp = Idle /\ \E queueManager \in Users, queueFor \in QueueFors, queue \in ShortLists :
           /\ alreadyExists(queueFor) \/ Len(queues) < MaxQueues
           /\ createQueue(queueManager, queueFor, queue, 0, 1) /\ UNCHANGED notQueue
    \/ lastOp = Idle /\ \E queueFor \in QueueFors, user \in Users : getEstimatedTime(queueFor, user) /\ UNCHANGED notQueue
    \/ lastOp = Idle /\ \E user \in Users, queueFor \in QueueFors : progressQueue(user, queueFor) /\ UNCHANGED notQueue
    \/ lastOp = Idle /\ \E user \in Users, queueFor \in QueueFors : deleteQueue(user, queueFor) /\ UNCHANGED notQueue
    \/ lastOp = Idle /\ \E queueManager \in Users : deleteAllManagerQueues(queueManager) /\ UNCHANGED notQueue
    \/ forget /\ UNCHANGED notQueue /\ UNCHANGED <<queues, progressLog>>

\* ---------------------------------------------------- Queue, interleaved
\* The opportunity whose queue the racing calls progress, and the applicant
\* lists it is created with: no applicant is listed twice.
RaceFor == 1
DistinctApplicants ==
    {q \in UNION {[1..n -> RaceUsers] : n \in 0..MaxQueued} : \A a, b \in 1..Len(q) : q[a] = q[b] => a = b}

\* progressQueue up to the return of `await this.doesntExist(queueFor)`: the
\* queue document is read and the call waits to go on, or NoQueueError is
\* thrown.
progressRead(user, queueFor) ==
    LET i == doesntExist(queueFor)
    IN  /\ Len(calls) < MaxCalls
        /\ IF i = 0
           THEN /\ lastOp' = Done("Queue.progressQueue", <<user, queueFor>>, "NotFound", "NoQueueError",
                                  [pre |-> queues])
                /\ UNCHANGED <<queues, progressLog, calls>>
           ELSE /\ calls' = Append(calls, [op |-> "Queue.progressQueue", args |-> <<user, queueFor>>,
                                           read |-> queues[i]])
                /\ UNCHANGED <<queues, progressLog, lastOp>>

\* updateOne adding one to the position stored at the time of the write.
progressStoreIncrement(queue, newPosition) ==
    LET i == doesntExist(queue.queueFor)
    IN  IF i = 0 THEN queues ELSE [queues EXCEPT ![i].currentPosition = @ + 1]

\* `updateOne({ queueFor }, { currentPosition: newPosition })`: the position
\* computed from the document read is stored.
progressStore(queue, newPosition) ==
    LET i == doesntExist(queue.queueFor)
    IN  IF i = 0 THEN queues ELSE [queues EXCEPT ![i].currentPosition = newPosition]

\* progressQueue from the return of doesntExist to its own return, for the
\* k-th call waiting: ret holds the document the call had read, the collection
\* as it was before the write and the applicants returned.
progressWrite(k) ==
    LET c == calls[k]
        queue == c.read
        newPosition == queue.currentPosition + 1
        current == queue.queue[newPosition]
        nextQueued == IF newPosition + 1 \in DOMAIN queue.queue THEN queue.queue[newPosition + 1] ELSE Null
    IN  /\ c.op = "Queue.progressQueue"
        /\ calls' = RemoveAt(calls, k)
        /\ IF isManager(c.args[1], queue.queueManager)
           THEN /\ lastOp' = Done("Queue.progressQueue", c.args, "NotAllowed", "NotManagerError", [pre |-> queues])
                /\ UNCHANGED <<queues, progressLog>>
           ELSE IF exhausted(queue, newPosition)
           THEN /\ lastOp' = Done("Queue.progressQueue", c.args, "NotAllowed",
                                  "NotAllowedError: Went through everyone in queue", [pre |-> queues])
                /\ UNCHANGED <<queues, progressLog>>
           ELSE /\ queues' = progressStore(queue, newPosition)
                /\ progressLog' = [progressLog EXCEPT ![c.args[2]] = Append(@, current)]
                /\ lastOp' = Done("Queue.progressQueue", c.args, "ok", "",
                                  [pre |-> queues, read |-> queue, next |-> nextQueued, current |-> current])

\* One queue is created and stays stored; the calls progressing it interleave
\* at their awaits.
NextQueueCalls ==
    \/ \E queueManager \in RaceUsers, queue \in DistinctApplicants :
           /\ queues = <<>>
           /\ createQueue(queueManager, RaceFor, queue, 0, 1) /\ UNCHANGED notQueueCalls /\ UNCHANGED calls
    \/ \E user \in RaceUsers : progressRead(user, RaceFor) /\ UNCHANGED notQueueCalls
    \/ \E k \in 1..Len(calls) : progressWrite(k) /\ UNCHANGED notQueueCalls

\* ------------------------------------------------------------ Application
\* The statuses changeStatus is called with, and the ids it is called with.
NewStatuses == {"approved", "audition", "rejected", "withdrawn"}
AppIds == 1..(MaxApps + 1)

\* The property names of the array ["approved", "audition", "rejected"]: what
\* the JavaScript `in` operator tests against.
ArrayKeys == {"0", "1", "2", "length"}

\* ownerIsApplier throws NotAllowedError.
ownerIsApplier(owner, user) == owner = user

\* Index of the application with this _id, 0 when there is none.  doesntExist
\* tests the promise of readOne, which is never falsy, so it never throws and
\* hands on the document or null.
applicationDoesntExist(id) ==
    First({k \in 1..Len(applications) : applications[k]._id = id})

\* checkStatusChange with the applier test left out.
checkStatusChangeAnyone(user, newStatus, owner, applier) ==
    IF newStatus \in ArrayKeys /\ user # owner THEN "NotOwnerError" ELSE "ok"

\* "ok", or the error checkStatusChange throws.
checkStatusChange(user, newStatus, owner, applier) ==
    IF newStatus = "withdrawn" /\ user # applier THEN "NotApplierError"
    ELSE IF newStatus \in ArrayKeys /\ user # owner THEN "NotOwnerError"
    ELSE "ok"

\* Application.create(owner, user, text, media, applicationFor); text and
\* media are stored as given and read by no operation.
createApplication(owner, user, applicationFor) ==
    /\ Len(applications) < MaxApps
    /\ IF ownerIsApplier(owner, user)
       THEN /\ lastOp' = Done("Application.create", <<owner, user, applicationFor>>,
                              "NotAllowed", "NotAllowedError", applications)
            /\ UNCHANGED applications
       ELSE /\ applications' = Append(applications,
                   [_id |-> Len(applications) + 1, owner |-> owner, user |-> user,
                    status |-> "pending", applicationFor |-> applicationFor])
            /\ lastOp' = Done("Application.create", <<owner, user, applicationFor>>,
                              "ok", "", applications)

\* getAppsForOp's filter with no status left out.
appsForOpAnyStatus(a, opId) == a.applicationFor = opId

\* readMany of getAppsForOp: the applications for opId that are not withdrawn,
\* in document order.
appsForOpFilter(a, opId) ==
    a.applicationFor = opId /\ a.status \in {"approved", "audition", "rejected", "pending"}

\* Application.getAppsForOp(user, opId): ret is the array returned.  The owner
\* is read off the first application found; with none found it is a fresh
\* ObjectId, which no user has.
getAppsForOp(user, opId) ==
    LET found(a) == appsForOpFilter(a, opId)
        apps == SelectSeq(applications, found)
        owner == IF Len(apps) > 0 THEN apps[1].owner ELSE Null
    IN  /\ UNCHANGED applications
        /\ IF user = owner
           THEN lastOp' = Done("Application.getAppsForOp", <<user, opId>>, "ok", "", apps)
           ELSE lastOp' = Done("Application.getAppsForOp", <<user, opId>>, "NotAllowed", "NotAllowedError", Null)

\* Application.changeStatus(user, _id, newStatus): ret is the collection as it
\* was before the call.  For an _id that is not stored owner and applier are
\* "" and updateOne matches nothing.
changeStatus(user, id, newStatus) ==
    LET i == applicationDoesntExist(id)
        owner == IF i = 0 THEN Null ELSE applications[i].owner
        applier == IF i = 0 THEN Null ELSE applications[i].user
        e == checkStatusChange(user, newStatus, owner, applier)
    IN  IF e # "ok"
        THEN /\ lastOp' = Done("Application.changeStatus", <<user, id, newStatus>>, "NotAllowed", e, applications)
             /\ UNCHANGED applications
        ELSE /\ applications' = IF i = 0 THEN applications
                                ELSE [applications EXCEPT ![i].status = newStatus]
             /\ lastOp' = Done("Application.changeStatus", <<user, id, newStatus>>, "ok", "", applications)

\* ObjectId.toString(): the hexadecimal string of the id, never the name of an
\* array index.
toString(id) == "oid" \o ToString(id)

\* The property names of an array: what the JavaScript `in` operator tests
\* against.
KeysOf(array) == {ToString(k - 1) : k \in 1..Len(array)} \cup {"length"}

\* Application.getAppById(_id, user): ret is the application returned.  The
\* test `user.toString() in [owner, creator]` looks the string up among the
\* property names of the array.
getAppById(id, user) ==
    LET i == applicationDoesntExist(id)
        owner == IF i = 0 THEN "undefined" ELSE toString(applications[i].owner)
        creator == IF i = 0 THEN "undefined" ELSE toString(applications[i].user)
    IN  /\ UNCHANGED applications
        /\ IF toString(user) \in KeysOf(<<owner, creator>>)
           THEN lastOp' = Done("Application.getAppById", <<id, user>>, "ok", "",
                               IF i = 0 THEN Null ELSE applications[i])
           ELSE lastOp' = Done("Application.getAppById", <<id, user>>, "NotAllowed", "NotAllowedError", Null)

\* readMany(user): an ObjectId given as the filter selects by _id.  The ids of
\* users and of applications come from different collections and are never
\* equal.
readManyByObjectId(user) ==
    {k \in 1..Len(applications) : <<"applications", applications[k]._id>> = <<"users", user>>}

\* Application.withdrawUser(user): ret is the collection as it was before the
\* call.
withdrawUser(user) ==
    LET found == readManyByObjectId(user)
    IN  /\ applications' = [k \in 1..Len(applications) |->
               IF k \in found THEN [applications[k] EXCEPT !.status = "withdrawn"]
               ELSE applications[k]]
        /\ lastOp' = Done("Application.withdrawUser", <<user>>, "ok", "", applications)

\* The opportunities applications are made for are stored before the first
\* application: opportunity k is owned by user k.
InitApplication ==
    /\ applications = <<>>
    /\ opportunities = [k \in 1..MaxOpps |->
           [_id |-> k, user |-> k, title |-> "text", description |-> "text",
            startOn |-> 1, endsOn |-> 2, expiresOn |-> daysTillExpires, isActive |-> TRUE]]
    /\ opCreated = MaxOpps
    /\ now = 0

\* The route hands create the owner of the stored opportunity applied for.
NextApplication ==
    \/ lastOp = Idle /\ \E user \in Users, k \in 1..Len(opportunities) :
           createApplication(opportunities[k].user, user, opportunities[k]._id) /\ UNCHANGED notApplication
    \/ lastOp = Idle /\ \E user \in Users, opId \in OpIds : getAppsForOp(user, opId) /\ UNCHANGED notApplication
    \/ lastOp = Idle /\ \E user \in Users, id \in AppIds, newStatus \in NewStatuses :
           changeStatus(user, id, newStatus) /\ UNCHANGED notApplication
    \/ lastOp = Idle /\ \E user \in Users, id \in AppIds : getAppById(id, user) /\ UNCHANGED notApplication
    \/ lastOp = Idle /\ \E user \in Users : withdrawUser(user) /\ UNCHANGED notApplication
    \/ forget /\ UNCHANGED notApplication /\ UNCHANGED applications

\* -------------------------------------------------------------- Portfolio
\* The users that have portfolios and the media ids that are added and removed.
PortfolioUsers == {1, 2}
MediaIds == {1, 2}

InitPortfolio == portfolios = <<>>

\* Index of the portfolio of this user, 0 when there is none (doesntExist
\* throws NoPortfolioError).
portfolioDoesntExist(user) ==
    First({k \in 1..Len(portfolios) : portfolios[k].user = user})

\* alreadyExists throws HasPortfolioError.
portfolioAlreadyExists(user) == portfolioDoesntExist(user) # 0

\* Portfolio.create(user, headshot); the headshot is stored as given and read
\* by no operation here.
createPortfolio(user) ==
    IF portfolioAlreadyExists(user)
    THEN /\ lastOp' = Done("Portfolio.create", <<user>>, "NotAllowed", "HasPortfolioError", [pre |-> portfolios])
         /\ UNCHANGED portfolios
    ELSE /\ portfolios' = Append(portfolios, [user |-> user, media |-> <<>>])
         /\ lastOp' = Done("Portfolio.create", <<user>>, "ok", "", [pre |-> portfolios])

\* Portfolio.delete(user).
deletePortfolio(user) ==
    LET i == portfolioDoesntExist(user)
    IN  /\ portfolios' = IF i = 0 THEN portfolios ELSE RemoveAt(portfolios, i)
        /\ lastOp' = Done("Portfolio.delete", <<user>>, "ok", "", [pre |-> portfolios])

\* Portfolio.addMedia(user, media): the list grows to MaxMedia ids at most.
addMedia(user, media) ==
    LET i == portfolioDoesntExist(user)
    IN  IF i = 0
        THEN /\ lastOp' = Done("Portfolio.addMedia", <<user, media>>, "NotFound", "NoPortfolioError", [pre |-> portfolios])
             /\ UNCHANGED portfolios
        ELSE /\ Len(portfolios[i].media) < MaxMedia
             /\ portfolios' = [portfolios EXCEPT ![i].media = Append(@, media)]
             /\ lastOp' = Done("Portfolio.addMedia", <<user, media>>, "ok", "", [pre |-> portfolios])

\* What portfolio.media.splice(index, 1) returns: the array of the elements
\* it removed.
mediaSpliced(media, index) == <<media[index]>>

\* getMediaAndRemove(user, media): [err, media], the error thrown or the
\* array returned.
getMediaAndRemove(user, media) ==
    LET i == portfolioDoesntExist(user)
        index == indexOf(portfolios[i].media, media)
    IN  IF i = 0 THEN [err |-> "NoPortfolioError", media |-> <<>>]
        ELSE IF index # 0 THEN [err |-> "", media |-> mediaSpliced(portfolios[i].media, index)]
        ELSE [err |-> "BadValuesError", media |-> <<>>]

\* Portfolio.removeMedia(userId, media).
removeMedia(userId, media) ==
    LET newMedia == getMediaAndRemove(userId, media)
        i == portfolioDoesntExist(userId)
    IN  IF newMedia.err = "NoPortfolioError"
        THEN /\ lastOp' = Done("Portfolio.removeMedia", <<userId, media>>, "NotFound", newMedia.err, [pre |-> portfolios])
             /\ UNCHANGED portfolios
        ELSE IF newMedia.err = "BadValuesError"
        THEN /\ lastOp' = Done("Portfolio.removeMedia", <<userId, media>>, "BadValues", newMedia.err, [pre |-> portfolios])
             /\ UNCHANGED portfolios
        ELSE /\ portfolios' = [portfolios EXCEPT ![i].media = newMedia.media]
             /\ lastOp' = Done("Portfolio.removeMedia", <<userId, media>>, "ok", "", [pre |-> portfolios])

NextPortfolio ==
    \/ lastOp = Idle /\ \E user \in PortfolioUsers : createPortfolio(user) /\ UNCHANGED notPortfolio
    \/ lastOp = Idle /\ \E user \in PortfolioUsers : deletePortfolio(user) /\ UNCHANGED notPortfolio
    \/ lastOp = Idle /\ \E user \in PortfolioUsers, media \in MediaIds : addMedia(user, media) /\ UNCHANGED notPortfolio
    \/ lastOp = Idle /\ \E user \in PortfolioUsers, media \in MediaIds : removeMedia(user, media) /\ UNCHANGED notPortfolio
    \/ forget /\ UNCHANGED notPortfolio /\ UNCHANGED portfolios

\* ----------------------------------------------------------------- Folder
\* The capacity FolderConcept is constructed with.
DefaultCapacity == 15

\* The users practice folders are made for, the items put into them and the
\* limits changeCapacity is called with.
FolderUsers == {1, 2}
Items == {1, 2}
Capacities == 0..MaxCapacity

\* Index of user's practice folder, 0 when there is none.
practiceOf(user) ==
    First({k \in 1..Len(practiceFolders) : practiceFolders[k].user = user})

\* alreadyHasPracticeFolder throws HasPracticeFolderError.
alreadyHasPracticeFolder(user) == practiceOf(user) # 0

\* doesntHavePracticeFolder throws NoPracticeFolderError.
doesntHavePracticeFolder(user) == practiceOf(user) = 0

\* Array.splice(index, 1) changes the array in place and returns the removed
\* elements.
spliced(contents, index) == <<contents[index]>>

\* Folder.createPractice(user).
createPractice(user) ==
    /\ UNCHANGED capacity
    /\ IF alreadyHasPracticeFolder(user)
       THEN /\ lastOp' = Done("Folder.createPractice", <<user>>, "NotAllowed", "HasPracticeFolderError",
                              [pre |-> practiceFolders])
            /\ UNCHANGED practiceFolders
       ELSE /\ practiceFolders' = Append(practiceFolders,
                   [user |-> user, contents |-> <<>>, name |-> "Practice Folder", numContents |-> 0])
            /\ lastOp' = Done("Folder.createPractice", <<user>>, "ok", "", [pre |-> practiceFolders])

\* Folder.addPractice(user, item).  The contents are kept to MaxCapacity items.
addPractice(user, item) ==
    LET i == practiceOf(user)
        practice == practiceFolders[i]
    IN  /\ UNCHANGED capacity
        /\ IF doesntHavePracticeFolder(user)
           THEN /\ lastOp' = Done("Folder.addPractice", <<user, item>>, "NotFound", "NoPracticeFolderError",
                                  [pre |-> practiceFolders])
                /\ UNCHANGED practiceFolders
           ELSE IF practice.numContents + 1 <= capacity
           THEN /\ Len(practice.contents) < MaxCapacity
                /\ practiceFolders' = [practiceFolders EXCEPT
                       ![i].contents = Append(practice.contents, item),
                       ![i].numContents = practice.numContents + 1]
                /\ lastOp' = Done("Folder.addPractice", <<user, item>>, "ok", "", [pre |-> practiceFolders])
           ELSE /\ lastOp' = Done("Folder.addPractice", <<user, item>>, "NotAllowed", "NotAllowedError",
                                  [pre |-> practiceFolders])
                /\ UNCHANGED practiceFolders

\* Folder.removePractice(user, item): what is stored as contents is the value
\* splice returns.  numContents is kept from falling below -MaxCapacity.
removePractice(user, item) ==
    LET i == practiceOf(user)
        practice == practiceFolders[i]
        index == First({k \in 1..Len(practice.contents) : practice.contents[k] = item})
        newContents == spliced(practice.contents, index)
    IN  /\ UNCHANGED capacity
        /\ IF doesntHavePracticeFolder(user)
           THEN /\ lastOp' = Done("Folder.removePractice", <<user, item>>, "NotFound", "NoPracticeFolderError",
                                  [pre |-> practiceFolders])
                /\ UNCHANGED practiceFolders
           ELSE IF index # 0
           THEN /\ practice.numContents - 1 >= -MaxCapacity
                /\ practiceFolders' = [practiceFolders EXCEPT
                       ![i].contents = newContents,
                       ![i].numContents = practice.numContents - 1]
                /\ lastOp' = Done("Folder.removePractice", <<user, item>>, "ok", "", [pre |-> practiceFolders])
           ELSE /\ lastOp' = Done("Folder.removePractice", <<user, item>>, "NotFound", "NotInFolderError",
                                  [pre |-> practiceFolders])
                /\ UNCHANGED practiceFolders

\* Folder.changeCapacity(newLimit).
changeCapacity(newLimit) ==
    /\ capacity' = newLimit
    /\ UNCHANGED practiceFolders
    /\ lastOp' = Done("Folder.changeCapacity", <<newLimit>>, "ok", "", [pre |-> practiceFolders])

\* Folder.deleteUser(user): the practice folder of user is removed.
deleteUserFolders(user) ==
    /\ UNCHANGED capacity
    /\ practiceFolders' = IF practiceOf(user) = 0 THEN practiceFolders
                          ELSE RemoveAt(practiceFolders, practiceOf(user))
    /\ lastOp' = Done("Folder.deleteUser", <<user>>, "ok", "", [pre |-> practiceFolders])

InitFolder ==
    /\ practiceFolders = <<>>
    /\ capacity = DefaultCapacity

NextFolder ==
    \/ lastOp = Idle /\ \E user \in FolderUsers : createPractice(user) /\ UNCHANGED notFolder
    \/ lastOp = Idle /\ \E user \in FolderUsers, item \in Items : addPractice(user, item) /\ UNCHANGED notFolder
    \/ lastOp = Idle /\ \E user \in FolderUsers, item \in Items : removePractice(user, item) /\ UNCHANGED notFolder
    \/ lastOp = Idle /\ \E newLimit \in Capacities : changeCapacity(newLimit) /\ UNCHANGED notFolder
    \/ lastOp = Idle /\ \E user \in FolderUsers : deleteUserFolders(user) /\ UNCHANGED notFolder
    \/ forget /\ UNCHANGED notFolder /\ UNCHANGED <<practiceFolders, capacity>>

\* -------------------------------------------------------------- Challenge
Prompts == {"p1", "p2"}

InitChallenge ==
    /\ proposed = <<>>
    /\ posted = <<>>

\* Challenge.propose(challenger, prompt).
propose(challenger, prompt) ==
    LET doc == [_id |-> created.challenges + 1, challenger |-> challenger, prompt |-> prompt, numAccepted |-> 0]
    IN  /\ created.challenges < MaxChallenges
        /\ proposed' = Append(proposed, doc)
        /\ created' = [created EXCEPT !.challenges = created.challenges + 1]
        /\ UNCHANGED posted
        /\ lastOp' = Done("Challenge.propose", <<challenger, prompt>>, "ok", "",
                          [pre |-> [proposed |-> proposed, posted |-> posted], posted |-> Null])

\* deleteOne({ proposedId }): removes the first proposal whose field
\* `proposedId` is proposedId.
deleteOneProposedId(coll, proposedId) ==
    LET i == First({k \in 1..Len(coll) : Field(coll[k], "proposedId") = proposedId})
    IN  IF i = 0 THEN coll ELSE RemoveAt(coll, i)

\* posted.readOne({ postedId }): the first posted challenge whose field
\* `postedId` is postedId, Null when there is none.
readOnePostedId(coll, postedId) ==
    LET i == First({k \in 1..Len(coll) : Field(coll[k], "postedId") = postedId})
    IN  IF i = 0 THEN Null ELSE coll[i]

\* Challenge.randomlyPostOne: proposal k is the one Math.random selects; the
\* copy is created in the collection createOne is called on, proposed.
randomlyPostOne ==
    IF Len(proposed) = 0
    THEN /\ UNCHANGED <<proposed, posted, created>>
         /\ lastOp' = Done("Challenge.randomlyPostOne", <<>>, "NotAllowed", "NoProposedChallenges",
                           [pre |-> [proposed |-> proposed, posted |-> posted], posted |-> Null])
    ELSE \E k \in 1..Len(proposed) :
           LET randomlySelected == proposed[k]
               postedId == created.challenges + 1
               copy == [_id |-> postedId, challenger |-> randomlySelected.challenger,
                        prompt |-> randomlySelected.prompt, numAccepted |-> 0]
           IN  /\ created.challenges < MaxChallenges
               /\ created' = [created EXCEPT !.challenges = postedId]
               /\ proposed' = deleteOneProposedId(Append(proposed, copy), randomlySelected._id)
               /\ UNCHANGED posted
               /\ lastOp' = Done("Challenge.randomlyPostOne", <<>>, "ok", "",
                                 [pre |-> [proposed |-> proposed, posted |-> posted],
                                  posted |-> readOnePostedId(posted, postedId)])

NextChallenge ==
    \/ lastOp = Idle /\ \E challenger \in Users, prompt \in Prompts : propose(challenger, prompt) /\ UNCHANGED notChallenge
    \/ lastOp = Idle /\ randomlyPostOne /\ UNCHANGED notChallenge
    \/ forget /\ UNCHANGED notChallenge /\ UNCHANGED <<proposed, posted, created>>

\* The collection "posted challenges" as the database holds it when the
\* concept is constructed: up to MaxPosted challenges posted earlier, none
\* accepted yet.  No operation of the concept inserts into it.
StoredPosted ==
    {[k \in 1..n |-> [_id |-> k, challenger |-> 1, prompt |-> "p1", numAccepted |-> 0]] : n \in 0..MaxPosted}

\* The ids and values updateChallengeCount is called with: 1 to accept, -1 to
\* cancel an acceptance.
PostedIds == 1..(MaxPosted + 1)
CountValues == {1, -1}

\* Challenge.updateChallengeCount(_id, value): ret is the collection as it was
\* before the call.  The throw follows the if block, so it is reached on both
\* paths.  The counter is kept within MaxAccepted of 0.
updateChallengeCount(id, value) ==
    LET i == First({k \in 1..Len(posted) : posted[k]._id = id})
    IN  /\ IF i # 0
           THEN /\ posted[i].numAccepted + value \in (0 - MaxAccepted)..MaxAccepted
                /\ posted' = [posted EXCEPT ![i].numAccepted = posted[i].numAccepted + value]
           ELSE UNCHANGED posted
        /\ UNCHANGED <<proposed, created>>
        /\ lastOp' = Done("Challenge.updateChallengeCount", <<id, value>>, "NotFound", "ChallengeNotFound",
                          [pre |-> posted])

NextPosted ==
    \/ lastOp = Idle /\ \E id \in PostedIds, value \in CountValues : updateChallengeCount(id, value) /\ UNCHANGED notChallenge
    \/ forget /\ UNCHANGED notChallenge /\ UNCHANGED <<proposed, posted, created>>

\* ------------------------------------------------------------------- User
Emails == {"", "a", "b"}
Passwords == {"", "p"}
UserNames == {"", "n"}
UserIds == 1..MaxUsers

\* The updates User.update is called with: a new email, a new password, and
\* a field that is not in allowedUpdates.
UserUpdates ==
    {[email |-> e] : e \in Emails} \cup {[password |-> "q"]} \cup {[profilePic |-> 1]}

\* The ids of the stored users.
userIds == {users[k]._id : k \in 1..Len(users)}

\* userDoesntExist's readOne({ _id }): 0 when it throws NotFoundError.
userDoesntExist(_id) == First({k \in 1..Len(users) : users[k]._id = _id})

\* userEmailDoesntExist's readOne({ email }): 0 when it throws NotFoundError.
userEmailDoesntExist(email) == First({k \in 1..Len(users) : users[k].email = email})

\* sanitizeUser: user without its password field.
sanitizeUser(user) == [key \in DOMAIN user \ {"password"} |-> user[key]]

\* isEmailUnique throws NotAllowedError: a user is stored under email.
isEmailUnique(email) == userEmailDoesntExist(email) # 0

\* sanitizeUpdate of User throws: a key outside allowedUpdates.
sanitizeUserUpdate(upd) ==
    \E key \in DOMAIN upd : key \notin {"email", "password", "name", "city", "state", "country"}

\* User.create: canCreate, then createOne; returns the stored document.
createUser(email, password, name) ==
    LET doc == [_id |-> created.users + 1, email |-> email, password |-> password, name |-> name]
    IN  IF email = "" \/ password = ""
        THEN /\ UNCHANGED <<users, created>>
             /\ lastOp' = Done("User.create", <<email, password, name>>, "BadValues", "BadValuesError", <<>>)
        ELSE IF isEmailUnique(email)
        THEN /\ UNCHANGED <<users, created>>
             /\ lastOp' = Done("User.create", <<email, password, name>>, "NotAllowed", "NotAllowedError", <<>>)
        ELSE /\ created.users < MaxUsers
             /\ users' = Append(users, doc)
             /\ created' = [created EXCEPT !.users = created.users + 1]
             /\ lastOp' = Done("User.create", <<email, password, name>>, "ok", "", <<doc>>)

\* User.getUserById.
getUserById(_id) ==
    /\ UNCHANGED <<users, created>>
    /\ IF userDoesntExist(_id) = 0
       THEN lastOp' = Done("User.getUserById", <<_id>>, "NotFound", "NotFoundError", <<>>)
       ELSE lastOp' = Done("User.getUserById", <<_id>>, "ok", "", <<sanitizeUser(users[userDoesntExist(_id)])>>)

\* User.getUserByEmail.
getUserByEmail(email) ==
    /\ UNCHANGED <<users, created>>
    /\ IF userEmailDoesntExist(email) = 0
       THEN lastOp' = Done("User.getUserByEmail", <<email>>, "NotFound", "NotFoundError", <<>>)
       ELSE lastOp' = Done("User.getUserByEmail", <<email>>, "ok", "", <<sanitizeUser(users[userEmailDoesntExist(email)])>>)

\* User.idsToUsers(ids): the documents readMany finds, as they are stored.
idsToUsers(ids) ==
    /\ UNCHANGED <<users, created>>
    /\ lastOp' = Done("User.idsToUsers", <<ids>>, "ok", "", SelectSeq(users, LAMBDA u : u._id \in ids))

\* User.getUsers(name): every user, or those called name, each sanitized.
getUsers(name) ==
    LET found == SelectSeq(users, LAMBDA u : name = "" \/ u.name = name)
    IN  /\ UNCHANGED <<users, created>>
        /\ lastOp' = Done("User.getUsers", <<name>>, "ok", "", [k \in 1..Len(found) |-> sanitizeUser(found[k])])

\* User.authenticate: returns the id of the user stored with email and password.
authenticate(email, password) ==
    LET i == First({k \in 1..Len(users) : users[k].email = email /\ users[k].password = password})
    IN  /\ UNCHANGED <<users, created>>
        /\ IF i = 0
           THEN lastOp' = Done("User.authenticate", <<email, password>>, "NotAllowed", "NotAllowedError", <<>>)
           ELSE lastOp' = Done("User.authenticate", <<email, password>>, "ok", "", <<[_id |-> users[i]._id]>>)

\* User.update(_id, update): isEmailUnique is asked only for an email that is
\* in update and is not empty; updateOne changes nothing when _id is not stored.
updateUser(_id, upd) ==
    LET i == userDoesntExist(_id)
    IN  /\ UNCHANGED created
        /\ IF sanitizeUserUpdate(upd)
           THEN /\ UNCHANGED users
                /\ lastOp' = Done("User.update", <<_id, upd>>, "NotAllowed", "NotAllowedError: Cannot update field", <<>>)
           ELSE IF "email" \in DOMAIN upd /\ upd.email # "" /\ isEmailUnique(upd.email)
           THEN /\ UNCHANGED users
                /\ lastOp' = Done("User.update", <<_id, upd>>, "NotAllowed", "NotAllowedError", <<>>)
           ELSE /\ users' = IF i = 0 THEN users ELSE [users EXCEPT ![i] = SetFields(users[i], upd)]
                /\ lastOp' = Done("User.update", <<_id, upd>>, "ok", "", <<>>)

\* User.delete(_id).
deleteUser(_id) ==
    /\ UNCHANGED created
    /\ users' = SelectSeq(users, LAMBDA u : u._id # _id)
    /\ lastOp' = Done("User.delete", <<_id>>, "ok", "", <<>>)

NextUser ==
    \/ lastOp = Idle /\ \E email \in Emails, password \in Passwords, name \in UserNames :
           createUser(email, password, name) /\ UNCHANGED notUser
    \/ lastOp = Idle /\ \E _id \in UserIds : getUserById(_id) /\ UNCHANGED notUser
    \/ lastOp = Idle /\ \E email \in Emails : getUserByEmail(email) /\ UNCHANGED notUser
    \/ lastOp = Idle /\ \E ids \in SUBSET UserIds : idsToUsers(ids) /\ UNCHANGED notUser
    \/ lastOp = Idle /\ \E name \in UserNames : getUsers(name) /\ UNCHANGED notUser
    \/ lastOp = Idle /\ \E email \in Emails, password \in Passwords : authenticate(email, password) /\ UNCHANGED notUser
    \/ lastOp = Idle /\ \E _id \in UserIds, upd \in UserUpdates : updateUser(_id, upd) /\ UNCHANGED notUser
    \/ lastOp = Idle /\ \E _id \in UserIds : deleteUser(_id) /\ UNCHANGED notUser
    \/ forget /\ UNCHANGED notUser /\ UNCHANGED <<users, created>>

\* ----------------------------------------------------------------- Routes
\* The routes are called from sessions of stored users; createTag and
\* deleteTag from sessions of actors, addCategory and deleteCategory from
\* sessions of admins, so that Restrictions.check passes.
CategoryNames == {"monologue"}
Contents == {"", "text"}

\* The ids User.create hands out: A and B of the scenario, each signing up
\* with an email and a password of its own.
Accounts == {1, 2}
AccountEmail(id) == IF id = 1 THEN "a" ELSE "b"
CategoryIds == 1..MaxCategories
RoutePosts == 1..MaxRoutePosts

InitRoutes ==
    /\ users = <<>>
    /\ categories = <<>>
    /\ created = [posts |-> 0, categories |-> 0, users |-> 0, challenges |-> 0]

\* What a route's caller can compare afterwards: the collections before it.
Pre == [applauses |-> applauses, posts |-> posts, tags |-> tags]

postOf(_id) == First({k \in 1..Len(posts) : posts[k]._id = _id})
categoryNamed(name) == First({k \in 1..Len(categories) : categories[k].name = name})
applauseOf(user) == First({k \in 1..Len(applauses) : applauses[k].user = user})

\* The counters are kept within -MaxDebt..MaxScore.
InScore(user, amount) ==
    applauseOf(user) # 0 =>
        Plus(applauses[applauseOf(user)].value, amount) \in (0 - MaxDebt)..MaxScore

\* FocusedPost.doesntExist(_id): the category is not stored.
categoryDoesntExist(_id) ==
    First({k \in 1..Len(categories) : categories[k]._id = _id}) = 0

\* An isAuthor that tests only that the post is stored.
isAuthorAnyone(user, _id) ==
    IF postOf(_id) = 0 THEN "NotFoundError" ELSE ""

\* FocusedPost.isAuthor(user, _id): the error it throws, "" when none.
isAuthor(user, _id) ==
    IF postOf(_id) = 0 THEN "NotFoundError"
    ELSE IF posts[postOf(_id)].author # user THEN "FocusedPostAuthorNotMatchError"
    ELSE ""

\* The kind of each error the routes let through.
Kind(err) ==
    CASE err = "" -> "ok"
      [] err \in {"NotFoundError", "NoCounterError"} -> "NotFound"
      [] err = "BadValuesError" -> "BadValues"
      [] OTHER -> "NotAllowed"

\* Routes.createUser: User.create stores the account's user under a new id
\* (its email is not taken); then
\* Applause.initialize(id) and Folder.createPractice(id).
routeCreateUser(id) ==
    LET err == IF userExists(id) THEN "UserExistsError"
               ELSE IF alreadyHasPracticeFolder(id) THEN "HasPracticeFolderError"
               ELSE ""
    IN  /\ id \notin userIds
        /\ ~isEmailUnique(AccountEmail(id))
        /\ users' = Append(users, [_id |-> id, email |-> AccountEmail(id), password |-> "p", name |-> "n"])
        /\ applauses' = IF err = "UserExistsError" THEN applauses
                        ELSE Append(applauses, [user |-> id, value |-> 0])
        /\ practiceFolders' = IF err # "" THEN practiceFolders
                              ELSE Append(practiceFolders,
                                     [user |-> id, contents |-> <<>>, name |-> "Practice Folder", numContents |-> 0])
        /\ UNCHANGED <<posts, tags, categories, created>>
        /\ lastOp' = Done("Routes.createUser", <<id>>, Kind(err), err, Pre)

\* Routes.addCategory: FocusedPost.createCategory(name, description).
routeAddCategory(name) ==
    LET err == IF categoryNamed(name) # 0 THEN "NotAllowedError" ELSE ""
    IN  /\ err = "" => created.categories < MaxCategories
        /\ categories' = IF err # "" THEN categories
                         ELSE Append(categories, [_id |-> created.categories + 1, name |-> name])
        /\ created' = IF err # "" THEN created
                      ELSE [created EXCEPT !.categories = created.categories + 1]
        /\ UNCHANGED <<users, applauses, practiceFolders, posts, tags>>
        /\ lastOp' = Done("Routes.addCategory", <<name>>, Kind(err), err, Pre)

\* Routes.deleteCategory: FocusedPost.deleteCategory(id) deletes the category
\* and the posts in it.
routeDeleteCategory(id) ==
    /\ categories' = SelectSeq(categories, LAMBDA c : c._id # id)
    /\ posts' = SelectSeq(posts, LAMBDA q : q.category # id)
    /\ UNCHANGED <<users, applauses, practiceFolders, tags, created>>
    /\ lastOp' = Done("Routes.deleteCategory", <<id>>, "ok", "", Pre)

\* Routes.createPost: FocusedPost.create (verifyCategory, createOne), then
\* Applause.update(user, 3).
routeCreatePost(user, content, category) ==
    LET err == IF categoryDoesntExist(category) THEN "NotFoundError"
               ELSE IF content = "" THEN "NotAllowedError"
               ELSE IF noCounter(user) THEN "NoCounterError"
               ELSE ""
        stored == err \in {"", "NoCounterError"}
    IN  /\ user \in userIds
        /\ stored => created.posts < MaxRoutePosts
        /\ err = "" => InScore(user, 3)
        /\ posts' = IF stored
                    THEN Append(posts, [_id |-> created.posts + 1, author |-> user, category |-> category])
                    ELSE posts
        /\ created' = IF stored THEN [created EXCEPT !.posts = created.posts + 1] ELSE created
        /\ applauses' = IF err = "" THEN addValue(user, 3) ELSE applauses
        /\ UNCHANGED <<users, practiceFolders, tags, categories>>
        /\ lastOp' = Done("Routes.createPost", <<user, content, category>>, Kind(err), err, Pre)

\* Routes.deletePost: FocusedPost.getMediaById, Tag.deletePost,
\* Applause.update(user, -3), then FocusedPost.delete(id, user).
routeDeletePost(user, id) ==
    LET err == IF postOf(id) = 0 THEN "BadValuesError"
               ELSE IF noCounter(user) THEN "NoCounterError"
               ELSE isAuthor(user, id)
    IN  /\ user \in userIds
        /\ err \notin {"BadValuesError", "NoCounterError"} => InScore(user, -3)
        /\ tags' = IF err = "BadValuesError" THEN tags
                   ELSE SelectSeq(tags, LAMBDA t : t.post # id)
        /\ applauses' = IF err \in {"BadValuesError", "NoCounterError"} THEN applauses
                        ELSE addValue(user, -3)
        /\ posts' = IF err = "" THEN RemoveAt(posts, postOf(id)) ELSE posts
        /\ UNCHANGED <<users, practiceFolders, categories, created>>
        /\ lastOp' = Done("Routes.deletePost", <<user, id>>, Kind(err), err, Pre)

\* Routes.createTag: User.getUserById(tagged), FocusedPost.getAndVerify(post,
\* user), Tag.create(user, tagged, post), then Applause.update(tagged, 2).
routeCreateTag(user, post, tagged) ==
    LET err == IF tagged \notin userIds THEN "NotFoundError"
               ELSE IF isAuthor(user, post) # "" THEN isAuthor(user, post)
               ELSE IF tagExists(tagged, post) THEN "DuplicatedTagError"
               ELSE IF noCounter(tagged) THEN "NoCounterError"
               ELSE ""
        stored == err \in {"", "NoCounterError"}
    IN  /\ user \in userIds
        /\ stored => Len(tags) < MaxRouteTags
        /\ err = "" => InScore(tagged, 2)
        /\ tags' = IF stored
                   THEN Append(tags, [tagger |-> user, tagged |-> tagged, post |-> post])
                   ELSE tags
        /\ applauses' = IF err = "" THEN addValue(tagged, 2) ELSE applauses
        /\ UNCHANGED <<users, practiceFolders, posts, categories, created>>
        /\ lastOp' = Done("Routes.createTag", <<user, post, tagged>>, Kind(err), err, Pre)

\* Routes.deleteTag: User.getUserById(tagged), FocusedPost.getById(post),
\* Applause.update(tagged, -2), then Tag.deleteTag(user, tagged, post).
routeDeleteTag(user, post, tagged) ==
    LET i == First({k \in 1..Len(tags) : tags[k].tagged = tagged /\ tags[k].post = post})
        err == IF tagged \notin userIds THEN "NotFoundError"
               ELSE IF postOf(post) = 0 THEN "BadValuesError"
               ELSE IF noCounter(tagged) THEN "NoCounterError"
               ELSE IF i = 0 THEN "BadValuesError"
               ELSE IF tags[i].tagger # user THEN "TaggerNotMatchError"
               ELSE ""
        updated == tagged \in userIds /\ postOf(post) # 0 /\ ~noCounter(tagged)
    IN  /\ user \in userIds
        /\ updated => InScore(tagged, -2)
        /\ applauses' = IF updated THEN addValue(tagged, -2) ELSE applauses
        /\ tags' = IF err = "" THEN RemoveAt(tags, i) ELSE tags
        /\ UNCHANGED <<users, practiceFolders, posts, categories, created>>
        /\ lastOp' = Done("Routes.deleteTag", <<user, post, tagged>>, Kind(err), err, Pre)

\* FocusedPost.deleteUser(user): deleteMany({ user }) removes the posts whose
\* field `user` is user.
postsDeleteUser(user) ==
    /\ posts' = SelectSeq(posts, LAMBDA p : Field(p, "user") # user)
    /\ UNCHANGED <<users, practiceFolders, tags, categories, created, applauses>>
    /\ lastOp' = Done("FocusedPost.deleteUser", <<user>>, "ok", "", Pre)

\* Posts are created through the routes and deleted by user.
NextPostsOfUser ==
    \/ lastOp = Idle /\ \E id \in Accounts : routeCreateUser(id) /\ UNCHANGED notRoutes
    \/ lastOp = Idle /\ \E name \in CategoryNames : routeAddCategory(name) /\ UNCHANGED notRoutes
    \/ lastOp = Idle /\ \E user \in Accounts, content \in Contents, category \in CategoryIds :
           routeCreatePost(user, content, category) /\ UNCHANGED notRoutes
    \/ lastOp = Idle /\ \E user \in Accounts : postsDeleteUser(user) /\ UNCHANGED notRoutes
    \/ /\ forget
       /\ UNCHANGED notRoutes
       /\ UNCHANGED <<users, categories, created, applauses, practiceFolders, posts, tags>>

NextRoutes ==
    \/ lastOp = Idle /\ \E id \in Accounts : routeCreateUser(id) /\ UNCHANGED notRoutes
    \/ lastOp = Idle /\ \E name \in CategoryNames : routeAddCategory(name) /\ UNCHANGED notRoutes
    \/ lastOp = Idle /\ \E id \in CategoryIds : routeDeleteCategory(id) /\ UNCHANGED notRoutes
    \/ lastOp = Idle /\ \E user \in Accounts, content \in Contents, category \in CategoryIds :
           routeCreatePost(user, content, category) /\ UNCHANGED notRoutes
    \/ lastOp = Idle /\ \E user \in Accounts, id \in RoutePosts : routeDeletePost(user, id) /\ UNCHANGED notRoutes
    \/ lastOp = Idle /\ \E user, tagged \in Accounts, post \in RoutePosts :
           routeCreateTag(user, post, tagged) /\ UNCHANGED notRoutes
    \/ lastOp = Idle /\ \E user, tagged \in Accounts, post \in RoutePosts :
           routeDeleteTag(user, post, tagged) /\ UNCHANGED notRoutes
    \/ /\ forget
       /\ UNCHANGED notRoutes
       /\ UNCHANGED <<users, categories, created, applauses, practiceFolders, posts, tags>>

\* The vote routes start with every user signed up (an Applause counter of 0
\* each) and the posts 1..NumPosts stored, each by some author.
InitVote ==
    /\ votes = <<>>
    /\ applauses = [u \in 1..NumUsers |-> [user |-> u, value |-> 0]]
    /\ \E author \in [Posts -> Users] : posts = [q \in 1..NumPosts |-> [_id |-> q, author |-> author[q]]]
    /\ InitConnection
    /\ InitTag
    /\ InitOpportunity
    /\ InitQueue
    /\ applications = <<>>
    /\ InitFolder
    /\ InitRoutes
    /\ InitChallenge
    /\ InitPortfolio
    /\ calls = <<>>
    /\ credited = [user \in RaceUsers |-> 0]
    /\ lastOp = Idle

Init ==
    /\ InitConnection
    /\ InitOpportunity
    /\ InitQueue
    /\ applications = <<>>
    /\ InitFolder
    /\ InitRoutes
    /\ InitChallenge
    /\ InitPortfolio
    /\ calls = <<>>
    /\ credited = [user \in RaceUsers |-> 0]
    /\ InitTag
    /\ InitApplause
    /\ votes = <<>>
    /\ posts = <<>>
    /\ lastOp = Idle

SpecConnection == Init /\ [][NextConnection]_vars

SpecTag == Init /\ [][NextTag]_vars

SpecApplause == Init /\ [][NextApplause]_vars

SpecVote == InitVote /\ [][NextVote]_vars

SpecOpportunity == Init /\ [][NextOpportunity]_vars

SpecQueue == Init /\ [][NextQueue]_vars

SpecQueues == Init /\ [][NextQueues]_vars

SpecPortfolio == Init /\ [][NextPortfolio]_vars

SpecPostsOfUser == Init /\ [][NextPostsOfUser]_vars

\* The state with posted challenges stored.
InitPosted ==
    /\ InitConnection
    /\ InitOpportunity
    /\ InitQueue
    /\ applications = <<>>
    /\ InitFolder
    /\ InitRoutes
    /\ proposed = <<>>
    /\ posted \in StoredPosted
    /\ InitPortfolio
    /\ calls = <<>>
    /\ credited = [user \in RaceUsers |-> 0]
    /\ InitTag
    /\ InitApplause
    /\ votes = <<>>
    /\ posts = <<>>
    /\ lastOp = Idle

SpecPosted == InitPosted /\ [][NextPosted]_vars

SpecVoteRequests == InitVote /\ [][NextVoteRequests]_vars

SpecApplauseCalls == Init /\ [][NextApplauseCalls]_vars

SpecQueueCalls == Init /\ [][NextQueueCalls]_vars

SpecVoteCalls == Init /\ [][NextVoteCalls]_vars

\* The applications, with the opportunities stored.
InitApp ==
    /\ InitApplication
    /\ InitFolder
    /\ InitRoutes
    /\ InitChallenge
    /\ InitPortfolio
    /\ calls = <<>>
    /\ credited = [user \in RaceUsers |-> 0]
    /\ InitConnection
    /\ InitQueue
    /\ InitTag
    /\ InitApplause
    /\ votes = <<>>
    /\ posts = <<>>
    /\ lastOp = Idle

SpecApplication == InitApp /\ [][NextApplication]_vars

SpecFolder == Init /\ [][NextFolder]_vars

SpecRoutes == Init /\ [][NextRoutes]_vars

SpecUser == Init /\ [][NextUser]_vars

SpecChallenge == Init /\ [][NextChallenge]_vars

\* ------------------------------------------------------- claims: Connection
NumPending(from, to) ==
    Cardinality({i \in 1..Len(requests) :
        requests[i] = [from |-> from, to |-> to, status |-> "pending"]})

\* C1: once acceptRequest(A,B) has returned successfully, getConnections(A)
\* contains B and getConnections(B) contains A.
C1_AcceptedAreConnected ==
    (lastOp.op = "acceptRequest" /\ lastOp.res = "ok") =>
        /\ lastOp.args[2] \in Range(getConnections(lastOp.args[1]))
        /\ lastOp.args[1] \in Range(getConnections(lastOp.args[2]))

\* C2: a sendRequest between two users who are already connected (a Connection
\* row joins them when it is called) fails with NotAllowed (already connected)
\* and leaves no pending request between them.
C2_ConnectedCannotRequest ==
    (lastOp.op = "sendRequest" /\ lastOp.ret) =>
        /\ lastOp.res = "NotAllowed"
        /\ lastOp.err = "AlreadyConnectedError"
        /\ \A i \in 1..Len(requests) :
               ~PendingBetween(requests[i], lastOp.args[1], lastOp.args[2])

\* C3: a sendRequest(A,B) that directly follows a successful rejectRequest(A,B)
\* succeeds and leaves exactly one pending request from A to B, the rejected
\* record staying stored.
C3_SendAfterReject ==
    [][ ( /\ lastOp.op = "rejectRequest" /\ lastOp.res = "ok"
          /\ lastOp'.op = "sendRequest" /\ lastOp'.args = lastOp.args )
        => ( /\ lastOp'.res = "ok"
             /\ Cardinality({i \in 1..Len(requests') :
                    requests'[i] = [from |-> lastOp.args[1], to |-> lastOp.args[2], status |-> "pending"]}) = 1
             /\ [from |-> lastOp.args[1], to |-> lastOp.args[2], status |-> "rejected"] \in Range(requests') )
      ]_vars

\* C3 witness: a request was sent successfully while a rejected record of the
\* same ordered pair is stored.
C3_Witness ==
    /\ lastOp.op = "sendRequest" /\ lastOp.res = "ok"
    /\ [from |-> lastOp.args[1], to |-> lastOp.args[2], status |-> "rejected"] \in Range(requests)
    /\ NumPending(lastOp.args[1], lastOp.args[2]) = 1

\* -------------------------------------------------------------- claims: Tag
\* C4: at most one tag is stored per (tagged, post) pair, and a Tag.create for
\* a pair that already has a tag fails with the Duplicate (NotAllowed) error,
\* whoever the tagger is, and stores nothing.
C4_TagUnique ==
    /\ \A tagged \in Users, post \in Posts :
           Cardinality({i \in 1..Len(tags) : tags[i].tagged = tagged /\ tags[i].post = post}) <= 1
    /\ ( /\ lastOp.op = "Tag.create"
         /\ \E t \in Range(lastOp.ret) : t.tagged = lastOp.args[2] /\ t.post = lastOp.args[3] )
       => ( /\ lastOp.res = "NotAllowed"
            /\ lastOp.err = "DuplicatedTagError"
            /\ tags = lastOp.ret )

\* C4 witness: a second tagger's create for an already tagged pair was refused.
C4_Witness ==
    /\ lastOp.op = "Tag.create" /\ lastOp.err = "DuplicatedTagError"
    /\ \E t \in Range(tags) :
           /\ t.tagged = lastOp.args[2] /\ t.post = lastOp.args[3]
           /\ t.tagger # lastOp.args[1]

\* --------------------------------------------------------- claims: Applause
\* C10: at most one Applause record exists per user, and initialize on a user
\* who already has a record fails (UserExistsError) and leaves the collection,
\* the stored value included, as it was.
C10_OneCounterPerUser ==
    /\ \A u \in Users : Cardinality({i \in 1..Len(applauses) : applauses[i].user = u}) <= 1
    /\ ( /\ lastOp.op = "Applause.initialize"
         /\ \E a \in Range(lastOp.ret) : a.user = lastOp.args[1] )
       => ( /\ lastOp.res = "NotAllowed"
            /\ lastOp.err = "UserExistsError"
            /\ applauses = lastOp.ret )

\* C10 witness: initialize was refused for a user whose counter holds a value
\* other than the initial 0.
C10_Witness ==
    /\ lastOp.op = "Applause.initialize" /\ lastOp.err = "UserExistsError"
    /\ \E a \in Range(applauses) : a.user = lastOp.args[1] /\ a.value # 0

\* ------------------------------------------------------------- claims: Vote
\* C5: when vote(u,p,true) is called twice in a row starting with no vote of u
\* on p, the second call leaves no vote record for (u,p) and the applause
\* deltas of the two calls sum to 0.
C5_VoteTwiceCancels ==
    ( /\ lastOp.op = "vote" /\ lastOp.res = "ok"
      /\ lastOp.args[3] = TRUE
      /\ lastOp.ret.prev.same )
    => ( /\ Polarity(lastOp.args[1], lastOp.args[2]) = "none"
         /\ lastOp.ret.delta # NaN /\ lastOp.ret.prev.delta # NaN
         /\ lastOp.ret.delta + lastOp.ret.prev.delta = 0 )

\* ------------------------------------------------------ claims: Opportunity
\* Index in a collection of the opportunity with this _id, 0 when there is none.
StoredAt(coll, id) == First({k \in 1..Len(coll) : coll[k]._id = id})

\* C6 (as stated): Opportunity.create with startOn >= endsOn always fails with
\* NotAllowed and stores nothing.
C6_CreateBadDatesNotAllowed ==
    ( /\ lastOp.op = "Opportunity.create"
      /\ lastOp.args[4] >= lastOp.args[5] )
    => ( /\ lastOp.res = "NotAllowed"
         /\ opportunities = lastOp.ret )

\* C6 (amended): Opportunity.create with startOn >= endsOn always fails and
\* stores nothing; the failure is NotAllowed when title and description are
\* both given and BadValues when one of them is empty.  A successful create
\* stores the opportunity with isActive = true and expiresOn = creation time
\* + 14 days.
C6_CreateBadDatesFails ==
    lastOp.op = "Opportunity.create" =>
        LET title == lastOp.args[2]
            description == lastOp.args[3]
            startOn == lastOp.args[4]
            endsOn == lastOp.args[5]
        IN  /\ startOn >= endsOn =>
                /\ lastOp.res = (IF title # "" /\ description # "" THEN "NotAllowed" ELSE "BadValues")
                /\ opportunities = lastOp.ret
            /\ lastOp.res = "ok" =>
                /\ Len(opportunities) = Len(lastOp.ret) + 1
                /\ SubSeq(opportunities, 1, Len(lastOp.ret)) = lastOp.ret
                /\ LET stored == opportunities[Len(opportunities)]
                   IN  /\ stored.isActive = TRUE
                       /\ stored.expiresOn = now + 14
                       /\ stored.user = lastOp.args[1]
                       /\ stored.startOn = startOn /\ stored.endsOn = endsOn
                       /\ startOn < endsOn

\* C6 witness: a create with title and description given and startOn = endsOn
\* was refused with NotAllowed.
C6_Witness ==
    /\ lastOp.op = "Opportunity.create"
    /\ lastOp.args[2] # "" /\ lastOp.args[3] # ""
    /\ lastOp.args[4] = lastOp.args[5]
    /\ lastOp.res = "NotAllowed"
    /\ opportunities = lastOp.ret

\* C7: Opportunity.update by the owner that supplies only one of startOn /
\* endsOn is rejected exactly when the supplied date and the stored
\* counterpart violate startOn < endsOn, and otherwise the supplied date is
\* stored.
C7_UpdateOneDate ==
    ( /\ lastOp.op = "Opportunity.update"
      /\ StoredAt(lastOp.ret, lastOp.args[1]) # 0
      /\ lastOp.ret[StoredAt(lastOp.ret, lastOp.args[1])].user = lastOp.args[2]
      /\ DOMAIN lastOp.args[3] \in {{"startOn"}, {"endsOn"}} )
    => LET upd == lastOp.args[3]
           i == StoredAt(lastOp.ret, lastOp.args[1])
           oldOp == lastOp.ret[i]
           startOn == IF "startOn" \in DOMAIN upd THEN upd.startOn ELSE oldOp.startOn
           endsOn == IF "endsOn" \in DOMAIN upd THEN upd.endsOn ELSE oldOp.endsOn
       IN  /\ (lastOp.res # "ok") <=> (startOn >= endsOn)
           /\ lastOp.res = "ok" =>
                /\ opportunities[i].startOn = startOn
                /\ opportunities[i].endsOn = endsOn

\* C17: Opportunity.deactivate(id) without a user sets isActive to false only
\* if the opportunity is active and its expiresOn has passed; an opportunity
\* that expires now or later, or that is inactive already, is left unchanged.
C17_SweepOnlyExpired ==
    ( /\ lastOp.op = "Opportunity.deactivate"
      /\ Len(lastOp.args) = 1
      /\ StoredAt(lastOp.ret, lastOp.args[1]) # 0 )
    => LET i == StoredAt(lastOp.ret, lastOp.args[1])
           oldOp == lastOp.ret[i]
       IN  IF oldOp.isActive /\ oldOp.expiresOn < now
           THEN /\ lastOp.res = "ok"
                /\ opportunities = [lastOp.ret EXCEPT ![i].isActive = FALSE]
           ELSE opportunities = lastOp.ret

\* C17 witness: the sweep found an active opportunity past its expiresOn and
\* switched it off.
C17_Witness ==
    /\ lastOp.op = "Opportunity.deactivate"
    /\ Len(lastOp.args) = 1
    /\ StoredAt(lastOp.ret, lastOp.args[1]) # 0
    /\ lastOp.ret[StoredAt(lastOp.ret, lastOp.args[1])].isActive
    /\ lastOp.ret[StoredAt(lastOp.ret, lastOp.args[1])].expiresOn < now
    /\ ~opportunities[StoredAt(lastOp.ret, lastOp.args[1])].isActive

\* The last operation was update, deactivate(id, user), reactivate or delete
\* called on a stored opportunity by a user who is not its owner.
C18_ByNonOwner ==
    /\ lastOp.op \in {"Opportunity.update", "Opportunity.deactivate",
                      "Opportunity.reactivate", "Opportunity.delete"}
    /\ Len(lastOp.args) >= 2
    /\ StoredAt(lastOp.ret, lastOp.args[1]) # 0
    /\ lastOp.ret[StoredAt(lastOp.ret, lastOp.args[1])].user # lastOp.args[2]

\* C18 (as stated): update, deactivate(id, user), reactivate and delete by a
\* user who is not the stored owner fail with the NotOwner error and leave
\* the opportunity unchanged.
C18_NonOwnerGetsNotOwner ==
    C18_ByNonOwner =>
        /\ lastOp.res = "NotAllowed"
        /\ lastOp.err = "NotOwnerError"
        /\ opportunities = lastOp.ret

\* C18 (amended): these calls by a non-owner fail with NotAllowed and leave the
\* opportunity unchanged; the error is NotOwnerError, except for an update
\* naming a field sanitizeUpdate refuses, which fails with sanitizeUpdate's
\* NotAllowedError before the owner is looked at.
C18_NonOwnerRefused ==
    C18_ByNonOwner =>
        /\ lastOp.res = "NotAllowed"
        /\ opportunities = lastOp.ret
        /\ IF /\ lastOp.op = "Opportunity.update"
              /\ \E key \in DOMAIN lastOp.args[3] :
                     key \notin {"description", "startOn", "endOn", "requirements"}
           THEN lastOp.err = "NotAllowedError: Cannot update field"
           ELSE lastOp.err = "NotOwnerError"

\* C18 witness: a reactivate by a non-owner was refused with NotOwnerError.
C18_Witness ==
    /\ C18_ByNonOwner
    /\ lastOp.op = "Opportunity.reactivate"
    /\ lastOp.err = "NotOwnerError"
    /\ opportunities = lastOp.ret

\* ------------------------------------------------------------ claims: Queue
\* C8: for a queue created with N applicants, the applicants returned as
\* current by the successful progressQueue calls since its creation are the
\* first currentPosition applicants in the original order; a call by the
\* manager at position p < N succeeds, moves to p + 1 and returns applicant
\* p + 1 as current and applicant p + 2 (none after the last) as next; a call
\* at position N fails with NotAllowed and leaves currentPosition at N.
C8_ProgressInOrder ==
    /\ \A k \in 1..Len(queues) :
          /\ queues[k].totalQueued = Len(queues[k].queue)
          /\ queues[k].currentPosition \in 0..queues[k].totalQueued
          /\ progressLog[queues[k].queueFor] = SubSeq(queues[k].queue, 1, queues[k].currentPosition)
    /\ lastOp.op = "Queue.create" /\ lastOp.res = "ok" =>
          queues[doesntExist(lastOp.args[2])].currentPosition = 0
    /\ ( /\ lastOp.op = "Queue.progressQueue"
         /\ doesntExist(lastOp.args[2]) # 0
         /\ queues[doesntExist(lastOp.args[2])].queueManager = lastOp.args[1] )
       => LET q == queues[doesntExist(lastOp.args[2])]
              was == lastOp.ret.pre[First({k \in 1..Len(lastOp.ret.pre) :
                                            lastOp.ret.pre[k].queueFor = lastOp.args[2]})]
              p == was.currentPosition
              N == Len(was.queue)
          IN  IF p < N
              THEN /\ lastOp.res = "ok"
                   /\ q.currentPosition = p + 1
                   /\ lastOp.ret.current = was.queue[p + 1]
                   /\ lastOp.ret.next = (IF p + 2 <= N THEN was.queue[p + 2] ELSE Null)
              ELSE /\ lastOp.res = "NotAllowed"
                   /\ q.currentPosition = N
                   /\ q = was

\* C8 witness: a queue of MaxQueued applicants has been progressed through
\* all of them and one more call by the manager was refused.
C8_Witness ==
    /\ lastOp.op = "Queue.progressQueue"
    /\ lastOp.res = "NotAllowed"
    /\ doesntExist(lastOp.args[2]) # 0
    /\ LET q == queues[doesntExist(lastOp.args[2])]
       IN  /\ q.queueManager = lastOp.args[1]
           /\ Len(q.queue) = MaxQueued
           /\ q.currentPosition = MaxQueued
           /\ progressLog[q.queueFor] = q.queue

\* C9: getEstimatedTime for the applicant at 1-based index k of the stored
\* order returns startTime + k * timePerPerson, for every startTime, and fails
\* with NotAllowed (NotInQueueError) for a user who is not in the queue.
C9_EstimatedTime ==
    ( /\ lastOp.op = "Queue.getEstimatedTime"
      /\ doesntExist(lastOp.args[1]) # 0 )
    => LET q == queues[doesntExist(lastOp.args[1])]
           k == indexOf(q.queue, lastOp.args[2])
       IN  IF k # 0
           THEN /\ lastOp.res = "ok"
                /\ lastOp.ret = q.startTime + k * q.timePerPerson
           ELSE /\ lastOp.res = "NotAllowed"
                /\ lastOp.err = "NotInQueueError"

\* ------------------------------------------------------ claims: Application
\* The last operation was a changeStatus on a stored application; AppWas is
\* that application as it was before the call.
AppChanged ==
    /\ lastOp.op = "Application.changeStatus"
    /\ lastOp.args[2] \in 1..Len(lastOp.ret)

AppWas == lastOp.ret[lastOp.args[2]]

\* C13: changeStatus(actor, id, s) with s approved, audition or rejected
\* changes the status only if actor is the stored opportunity owner; for any
\* other actor it fails with NotAllowed and the status is unchanged.
C13_OnlyOwnerDecides ==
    ( /\ AppChanged
      /\ lastOp.args[3] \in {"approved", "audition", "rejected"}
      /\ lastOp.args[1] # AppWas.owner )
    => ( /\ lastOp.res = "NotAllowed"
         /\ applications = lastOp.ret )

\* C14: changeStatus(actor, id, withdrawn) changes the status only if actor is
\* the stored applicant, and then to withdrawn; for any other actor it fails
\* with NotAllowed and the status is unchanged.
C14_OnlyApplierWithdraws ==
    ( /\ AppChanged
      /\ lastOp.args[3] = "withdrawn" )
    => IF lastOp.args[1] = AppWas.user
       THEN /\ lastOp.res = "ok"
            /\ applications = [lastOp.ret EXCEPT ![lastOp.args[2]].status = "withdrawn"]
       ELSE /\ lastOp.res = "NotAllowed"
            /\ applications = lastOp.ret

\* C14 witness: the opportunity owner tried to withdraw a pending application
\* and was refused.
C14_Witness ==
    /\ AppChanged
    /\ lastOp.args[3] = "withdrawn"
    /\ lastOp.args[1] = AppWas.owner
    /\ AppWas.status = "pending"
    /\ lastOp.err = "NotApplierError"
    /\ applications = lastOp.ret

\* C15: once an application is approved, audition, rejected or withdrawn, no
\* changeStatus call changes its status again.
C15_OnlyFromPending ==
    ( /\ AppChanged
      /\ AppWas.status # "pending" )
    => applications[lastOp.args[2]].status = AppWas.status

\* The last operation was a getAppsForOp for a stored opportunity.
C16_Asked ==
    /\ lastOp.op = "Application.getAppsForOp"
    /\ StoredAt(opportunities, lastOp.args[2]) # 0

C19_OneFolderWithinCapacity ==
    /\ \A u \in FolderUsers :
           Cardinality({k \in 1..Len(practiceFolders) : practiceFolders[k].user = u}) <= 1
    /\ \A k \in 1..Len(practiceFolders) : practiceFolders[k].numContents <= capacity

\* C20: removePractice(user, item) fails with NotFound (NotInFolderError) and
\* changes nothing when item is not in the user's practice folder; otherwise
\* the stored contents become the previous contents without that item, every
\* other item kept, and numContents decreases by 1.
C20_RemoveSplicesOut ==
    ( /\ lastOp.op = "Folder.removePractice"
      /\ \E k \in 1..Len(lastOp.ret.pre) : lastOp.ret.pre[k].user = lastOp.args[1] )
    => LET i == First({k \in 1..Len(lastOp.ret.pre) : lastOp.ret.pre[k].user = lastOp.args[1]})
           was == lastOp.ret.pre[i]
           index == First({k \in 1..Len(was.contents) : was.contents[k] = lastOp.args[2]})
       IN  IF index = 0
           THEN /\ lastOp.res = "NotFound"
                /\ lastOp.err = "NotInFolderError"
                /\ practiceFolders = lastOp.ret.pre
           ELSE /\ lastOp.res = "ok"
                /\ practiceFolders[i].contents = RemoveAt(was.contents, index)
                /\ practiceFolders[i].numContents = was.numContents - 1

\* ----------------------------------------------------------- claims: Routes
\* The applause value of user in a collection of counters; NaN when none.
ValueIn(coll, user) ==
    LET i == First({k \in 1..Len(coll) : coll[k].user = user})
    IN  IF i = 0 THEN NaN ELSE coll[i].value

\* The author of post in a collection of posts; Null when not stored.
AuthorIn(coll, post) ==
    LET i == First({k \in 1..Len(coll) : coll[k]._id = post})
    IN  IF i = 0 THEN Null ELSE coll[i].author

\* The tagger of the tag (tagged, post) in a collection of tags; Null when none.
TaggerIn(coll, tagged, post) ==
    LET i == First({k \in 1..Len(coll) : coll[k].tagged = tagged /\ coll[k].post = post})
    IN  IF i = 0 THEN Null ELSE coll[i].tagger

\* Steps 1, 2 and 4 of the scenario, for any users: createUser leaves the new
\* user's Applause at 0; createPost with content in a stored category succeeds
\* and adds 3 to the author's Applause; deleteTag by the tagger of a stored
\* tag on a stored post succeeds, removes the tag and takes 2 off the tagged
\* user's Applause.
C11_OtherSteps ==
    /\ lastOp.op = "Routes.createUser"
         => lastOp.res = "ok" /\ ValueIn(applauses, lastOp.args[1]) = 0
    /\ ( /\ lastOp.op = "Routes.createPost"
         /\ lastOp.args[2] # ""
         /\ ~categoryDoesntExist(lastOp.args[3]) )
         => /\ lastOp.res = "ok"
            /\ ValueIn(applauses, lastOp.args[1]) = ValueIn(lastOp.ret.applauses, lastOp.args[1]) + 3
            /\ Len(posts) = Len(lastOp.ret.posts) + 1
    /\ ( /\ lastOp.op = "Routes.deleteTag"
         /\ AuthorIn(lastOp.ret.posts, lastOp.args[2]) # Null
         /\ TaggerIn(lastOp.ret.tags, lastOp.args[3], lastOp.args[2]) = lastOp.args[1] )
         => /\ lastOp.res = "ok"
            /\ ValueIn(applauses, lastOp.args[3]) = ValueIn(lastOp.ret.applauses, lastOp.args[3]) - 2
            /\ TaggerIn(tags, lastOp.args[3], lastOp.args[2]) = Null

\* createTag(user, post, tagged) was called for a stored post, a stored tagged
\* user and no tag stored for (tagged, post).
C11_TagAsked ==
    /\ lastOp.op = "Routes.createTag"
    /\ AuthorIn(lastOp.ret.posts, lastOp.args[2]) # Null
    /\ ValueIn(lastOp.ret.applauses, lastOp.args[3]) # NaN
    /\ TaggerIn(lastOp.ret.tags, lastOp.args[3], lastOp.args[2]) = Null

C12_NoOrphanedTags ==
    ( /\ lastOp.op \in {"Routes.deletePost", "Routes.deleteCategory"}
      /\ lastOp.res = "ok" )
    => \A k \in 1..Len(lastOp.ret.posts) :
           AuthorIn(posts, lastOp.ret.posts[k]._id) = Null
           => \A t \in 1..Len(tags) : tags[t].post # lastOp.ret.posts[k]._id

\* ------------------------------------------------------------- claims: User
\* C21: in every state reachable by sequential User.create and User.update
\* calls, no two stored users have the same email.
C21_EmailUnique ==
    \A i, j \in 1..Len(users) : i # j => users[i].email # users[j].email

\* C22: no value returned by create, getUserById, getUserByEmail, getUsers,
\* idsToUsers or authenticate contains a password field.
C22_NoPasswordReturned ==
    ( /\ lastOp.op \in {"User.create", "User.getUserById", "User.getUserByEmail",
                        "User.getUsers", "User.idsToUsers", "User.authenticate"}
      /\ lastOp.res = "ok" )
    => \A k \in 1..Len(lastOp.ret) : "password" \notin DOMAIN lastOp.ret[k]

\* ------------------------------------------------- claims: Routes (deletes)
\* C23: a deletePost request from a stored user who is not the author of the
\* stored post fails and leaves the posts and the tags as they were.
C23_OnlyAuthorDeletes ==
    ( /\ lastOp.op = "Routes.deletePost"
      /\ AuthorIn(lastOp.ret.posts, lastOp.args[2]) # Null
      /\ AuthorIn(lastOp.ret.posts, lastOp.args[2]) # lastOp.args[1] )
    => /\ lastOp.res # "ok"
       /\ posts = lastOp.ret.posts
       /\ tags = lastOp.ret.tags

\* C24: when deleteTag or deletePost fails in its concept operation (caller
\* not the tagger or the author, tag or post missing), no Applause value has
\* changed.
C24_ApplauseOnlyOnSuccess ==
    ( /\ lastOp.op \in {"Routes.deleteTag", "Routes.deletePost"}
      /\ lastOp.res # "ok" )
    => applauses = lastOp.ret.applauses

\* ------------------------------------------- claims: Connection (requests)
\* The pending requests between u1 and u2, either way.
PendingPair(reqs, u1, u2) ==
    {i \in 1..Len(reqs) : reqs[i].status = "pending" /\ reqs[i].from \in {u1, u2} /\ reqs[i].to \in {u1, u2}}

\* The records of from -> to with the given status.
WithStatus(reqs, from, to, status) ==
    {i \in 1..Len(reqs) : reqs[i] = [from |-> from, to |-> to, status |-> status]}

\* C25: at most one Connection row is stored per unordered pair of users.
C25_OneRowPerPair ==
    \A u1, u2 \in Users :
        Cardinality({i \in 1..Len(connection) : Joins(connection[i], u1, u2)}) <= 1

\* C26: a sendRequest(from, to) called while a pending request is stored
\* between the two users, either way, fails with NotAllowed and stores
\* nothing; after every step at most one pending request is stored per pair.
C26_OnePendingPerPair ==
    [][ /\ \A u1, u2 \in Users : Cardinality(PendingPair(requests', u1, u2)) <= 1
        /\ ( /\ lastOp' # lastOp
             /\ lastOp'.op = "sendRequest"
             /\ PendingPair(requests, lastOp'.args[1], lastOp'.args[2]) # {} )
           => ( /\ lastOp'.res = "NotAllowed"
                /\ requests' = requests
                /\ connection' = connection )
      ]_vars

\* C26 witness: a sendRequest was refused because of the pending request the
\* other user had sent.
C26_Witness ==
    /\ lastOp.op = "sendRequest"
    /\ lastOp.err = "ConnectionRequestAlreadyExistsError"
    /\ lastOp.args[1] # lastOp.args[2]
    /\ WithStatus(requests, lastOp.args[2], lastOp.args[1], "pending") # {}

\* C27: acceptRequest, rejectRequest and removeRequest called with no pending
\* request from -> to stored fail with NotFound and change neither requests
\* nor connection; a rejectRequest that finds one removes it, stores a
\* rejected record in its place and leaves connection as it was.
C27_NeedsPending ==
    [][ ( /\ lastOp' # lastOp
          /\ lastOp'.op \in {"acceptRequest", "rejectRequest", "removeRequest"} )
        => IF WithStatus(requests, lastOp'.args[1], lastOp'.args[2], "pending") = {}
           THEN /\ lastOp'.res = "NotFound"
                /\ requests' = requests
                /\ connection' = connection
           ELSE lastOp'.op = "rejectRequest"
                => /\ lastOp'.res = "ok"
                   /\ connection' = connection
                   /\ Len(requests') = Len(requests)
                   /\ Cardinality(WithStatus(requests', lastOp'.args[1], lastOp'.args[2], "pending"))
                        = Cardinality(WithStatus(requests, lastOp'.args[1], lastOp'.args[2], "pending")) - 1
                   /\ Cardinality(WithStatus(requests', lastOp'.args[1], lastOp'.args[2], "rejected"))
                        = Cardinality(WithStatus(requests, lastOp'.args[1], lastOp'.args[2], "rejected")) + 1
      ]_vars

\* C27 witness: a rejectRequest was refused with NotFound although a record
\* of from -> to, no longer pending, is stored.
C27_Witness ==
    /\ lastOp.op = "rejectRequest"
    /\ lastOp.res = "NotFound"
    /\ WithStatus(requests, lastOp.args[1], lastOp.args[2], "rejected") # {}

\* -------------------------------------------------------- claims: Challenge
\* C30: a successful randomlyPostOne moves exactly one challenge from proposed
\* to posted: posted gains one challenge with the challenger and prompt of a
\* proposal stored before, that proposal is no longer in proposed, and
\* proposed gains nothing; with no proposal stored it fails with NotAllowed
\* and changes nothing.
C30_MovesOneChallenge ==
    lastOp.op = "Challenge.randomlyPostOne"
    => IF Len(lastOp.ret.pre.proposed) = 0
       THEN /\ lastOp.res = "NotAllowed"
            /\ proposed = lastOp.ret.pre.proposed
            /\ posted = lastOp.ret.pre.posted
       ELSE /\ lastOp.res = "ok"
            /\ Len(posted) = Len(lastOp.ret.pre.posted) + 1
            /\ Len(proposed) = Len(lastOp.ret.pre.proposed) - 1
            /\ \E k \in 1..Len(lastOp.ret.pre.proposed) :
                   /\ posted[Len(posted)].challenger = lastOp.ret.pre.proposed[k].challenger
                   /\ posted[Len(posted)].prompt = lastOp.ret.pre.proposed[k].prompt
                   /\ \A j \in 1..Len(proposed) : proposed[j]._id # lastOp.ret.pre.proposed[k]._id
                   /\ \A j \in 1..Len(proposed) : \E i \in 1..Len(lastOp.ret.pre.proposed) :
                          proposed[j] = lastOp.ret.pre.proposed[i]

\* ------------------------------------------------------ claims: Vote (flip)
\* C29: a vote whose polarity is the opposite of the caller's stored vote on
\* that parent flips the stored polarity in place, the (user, parent) pair
\* still having exactly one vote record, and returns a doubled applause
\* delta: an even, non-zero number of points of the new polarity's sign, by
\* which the author's counter changes.
C29_FlipDoublesDelta ==
    ( /\ lastOp.op = "vote" /\ lastOp.res = "ok"
      /\ lastOp.ret.had = (IF lastOp.args[3] THEN "down" ELSE "up") )
    => /\ Polarity(lastOp.args[1], lastOp.args[2]) = (IF lastOp.args[3] THEN "up" ELSE "down")
       /\ Cardinality({k \in 1..Len(votes) :
              votes[k].user = lastOp.args[1] /\ votes[k].parent = lastOp.args[2]}) = 1
       /\ "applausePoints" \in DOMAIN lastOp.ret.resp
       /\ lastOp.ret.delta # NaN
       /\ lastOp.ret.delta # 0
       /\ lastOp.ret.delta % 2 = 0
       /\ (lastOp.ret.delta > 0) = lastOp.args[3]

\* ----------------------------------------------------- claims: Tag (delete)
\* C28: Tag.deleteTag(user, tagged, post) fails with BadValues when no tag is
\* stored for (tagged, post) and with NotAllowed when user is not that tag's
\* tagger, the tags staying as they were in both cases; when user is the
\* tagger, that tag and no other is removed.
C28_OnlyTaggerDeletes ==
    lastOp.op = "Tag.deleteTag"
    => IF TaggerIn(lastOp.ret, lastOp.args[2], lastOp.args[3]) = Null
       THEN lastOp.res = "BadValues" /\ tags = lastOp.ret
       ELSE IF TaggerIn(lastOp.ret, lastOp.args[2], lastOp.args[3]) # lastOp.args[1]
       THEN lastOp.res = "NotAllowed" /\ tags = lastOp.ret
       ELSE /\ lastOp.res = "ok"
            /\ Len(tags) = Len(lastOp.ret) - 1
            /\ tags = SelectSeq(lastOp.ret,
                   LAMBDA t : ~(t.tagged = lastOp.args[2] /\ t.post = lastOp.args[3]))

\* C28 witness: a user who is not the tagger was refused, another tag being
\* stored beside the one asked for.
C28_Witness ==
    /\ lastOp.op = "Tag.deleteTag"
    /\ lastOp.err = "TaggerNotMatchError"
    /\ Len(tags) > 1

\* ------------------------------------------- claims: Application, by user
\* C31: withdrawUser(u) sets the status of every application whose applicant
\* is u to withdrawn and changes no application whose applicant is another
\* user.
C31_WithdrawsAllOfUser ==
    lastOp.op = "Application.withdrawUser"
    => /\ Len(applications) = Len(lastOp.ret)
       /\ \A k \in 1..Len(applications) :
              IF lastOp.ret[k].user = lastOp.args[1]
              THEN applications[k] = [lastOp.ret[k] EXCEPT !.status = "withdrawn"]
              ELSE applications[k] = lastOp.ret[k]

\* C40: getAppById(id, user) returns the application when user is its
\* applicant or the owner of the opportunity it was submitted to, and fails
\* with NotAllowed for every other user.
C40_OwnerOrApplierReads ==
    ( /\ lastOp.op = "Application.getAppById"
      /\ StoredAt(applications, lastOp.args[1]) # 0 )
    => LET a == applications[StoredAt(applications, lastOp.args[1])]
       IN  IF lastOp.args[2] \in {a.user, a.owner}
           THEN lastOp.res = "ok" /\ lastOp.ret = a
           ELSE lastOp.res = "NotAllowed"

\* ---------------------------------------------------- claims: Queue, stored
\* The queue stored for an opportunity, as an index into queues.
QueueOf(coll, f) == First({k \in 1..Len(coll) : coll[k].queueFor = f})

\* At most one queue per opportunity; every position lies between 0 and
\* totalQueued, which is the length of the stored applicant list.
C32_Stored ==
    /\ \A j, k \in 1..Len(queues) : queues[j].queueFor = queues[k].queueFor => j = k
    /\ \A k \in 1..Len(queues) :
          /\ queues[k].currentPosition \in 0..queues[k].totalQueued
          /\ queues[k].totalQueued = Len(queues[k].queue)

\* A queue that is newly stored starts at position 0; a queue that stays
\* stored keeps its applicant list and its position does not decrease.
C32_Step ==
    \A f \in QueueFors :
        LET j == QueueOf(queues, f)
            k == QueueOf(queues', f)
        IN  /\ (j = 0 /\ k # 0) => queues'[k].currentPosition = 0
            /\ (j # 0 /\ k # 0) =>
                  /\ queues'[k].currentPosition >= queues[j].currentPosition
                  /\ queues'[k].queue = queues[j].queue

\* C32: in every state reachable by sequential Queue operations there is at
\* most one queue per opportunity, and each queue's currentPosition starts at
\* 0, never decreases, and never exceeds totalQueued, which equals the length
\* of the stored applicant list.
C32_QueueInvariants == []C32_Stored /\ [][C32_Step]_vars

\* C32 witness: two queues are stored, one of them progressed to its end.
C32_Witness ==
    /\ Len(queues) = MaxQueues
    /\ \E k \in 1..Len(queues) :
          /\ queues[k].totalQueued > 0
          /\ queues[k].currentPosition = queues[k].totalQueued
    /\ lastOp.op = "Queue.progressQueue"
    /\ lastOp.res = "NotAllowed"
    /\ lastOp.err # "NotManagerError"

\* ------------------------------------------------------ claims: Portfolio
\* The last operation was a removeMedia on a stored portfolio; MediaWas is its
\* media list before the call and MediaNow the list stored after it.
MediaRemoved ==
    /\ lastOp.op = "Portfolio.removeMedia"
    /\ \E k \in 1..Len(lastOp.ret.pre) : lastOp.ret.pre[k].user = lastOp.args[1]

MediaWas ==
    lastOp.ret.pre[First({k \in 1..Len(lastOp.ret.pre) : lastOp.ret.pre[k].user = lastOp.args[1]})].media

MediaNow ==
    portfolios[First({k \in 1..Len(portfolios) : portfolios[k].user = lastOp.args[1]})].media

\* C33: removeMedia(user, m) fails with an error and changes nothing when m
\* is not in the portfolio's media list, and otherwise the stored list becomes
\* the previous list without m, every other media id retained.
C33_RemovesOnlyThatMedia ==
    MediaRemoved =>
        IF \E k \in 1..Len(MediaWas) : MediaWas[k] = lastOp.args[2]
        THEN /\ lastOp.res = "ok"
             /\ \E k \in 1..Len(MediaWas) :
                    /\ MediaWas[k] = lastOp.args[2]
                    /\ MediaNow = [j \in 1..(Len(MediaWas) - 1) |->
                                      IF j < k THEN MediaWas[j] ELSE MediaWas[j + 1]]
        ELSE /\ lastOp.res # "ok"
             /\ portfolios = lastOp.ret.pre

\* ------------------------------------------------- claims: Vote, interleaved
\* The records stored for the pair (user, parent).
VotesOf(coll, user, parent) ==
    {k \in 1..Len(coll) : coll[k].user = user /\ coll[k].parent = parent}

\* C34: a vote call that read "no existing vote" inserts its record whatever
\* has been stored since, so two simultaneous calls for the same (user,
\* parent) that both read "no existing vote" both insert.
C34_InsertsAfterStaleRead ==
    ( /\ lastOp.op = "Vote.vote"
      /\ lastOp.ret.read = <<>> )
    => votes = Append(lastOp.ret.pre,
                      [user |-> lastOp.args[1], upvote |-> lastOp.args[3], parent |-> lastOp.args[2]])

\* C34 witness: the second of two calls that both read "no existing vote" has
\* inserted, and two vote records are stored for the pair.
C34_Witness ==
    /\ lastOp.op = "Vote.vote"
    /\ lastOp.ret.read = <<>>
    /\ VotesOf(lastOp.ret.pre, lastOp.args[1], lastOp.args[2]) # {}
    /\ Cardinality(VotesOf(votes, lastOp.args[1], lastOp.args[2])) = 2

\* ------------------------------------------------ claims: Queue, interleaved
\* An applicant at or before the stored position was never returned as
\* current.
Skipped ==
    \E k \in 1..Len(queues) :
        \E idx \in 1..queues[k].currentPosition :
            /\ idx \in DOMAIN queues[k].queue
            /\ queues[k].queue[idx] \notin Range(progressLog[queues[k].queueFor])

\* The last call progressed the queue from a position that another call had
\* read too and had already advanced.
RaceDone ==
    /\ lastOp.op = "Queue.progressQueue"
    /\ lastOp.res = "ok"
    /\ lastOp.ret.pre[1].currentPosition = lastOp.ret.read.currentPosition + 1

\* C35 (as stated): two simultaneous progressQueue calls that both read the
\* same currentPosition and both advance it reach a state in which an
\* applicant has been skipped.
C35_RaceSkips == RaceDone => Skipped

\* C35 (amended): the second of two such calls stores the same position
\* again and returns the same applicant again; one advance is lost and no
\* applicant is ever skipped.
C35_RaceRepeats ==
    /\ ~Skipped
    /\ RaceDone =>
          /\ queues[1].currentPosition = lastOp.ret.pre[1].currentPosition
          /\ Cardinality({j \in 1..Len(progressLog[RaceFor]) :
                             progressLog[RaceFor][j] = lastOp.ret.current}) >= 2

\* C35 witness: two calls read the same position of a queue with applicants
\* left after it, and both have written.
C35_Witness ==
    /\ RaceDone
    /\ queues[1].currentPosition < queues[1].totalQueued

\* --------------------------------------------- claims: Applause, interleaved
\* C36: once the update calls for a user have completed, under every
\* interleaving, the stored value is the initial 0 plus the sum of their
\* amounts.
C36_NoUpdateLost ==
    \A k \in 1..Len(applauses) :
        Waiting(calls, applauses[k].user) = 0 => applauses[k].value = credited[applauses[k].user]

\* ------------------------------------------------------ claims: Vote (drift)
\* The stored votes of one polarity on the posts of an author.
VotesOn(author, upvote) ==
    {k \in 1..Len(votes) :
        /\ votes[k].upvote = upvote
        /\ \E q \in 1..Len(posts) : posts[q]._id = votes[k].parent /\ posts[q].author = author}

\* C37: after any sequence of vote requests the applause credited to an
\* author through votes is 0.5 x (stored upvotes - stored downvotes) on the
\* author's posts; the counters are in half points and start at 0.
C37_NoDrift ==
    \A k \in 1..Len(applauses) :
        applauses[k].value =
            Cardinality(VotesOn(applauses[k].user, TRUE)) - Cardinality(VotesOn(applauses[k].user, FALSE))

\* ----------------------------------------------------- claims: Challenge count
\* C38: updateChallengeCount(id, v) on an existing posted challenge adds v to
\* its numAccepted and returns successfully; it fails with NotFound only when
\* no posted challenge has that id.
C38_CountsAndReturns ==
    lastOp.op = "Challenge.updateChallengeCount"
    => LET pre == lastOp.ret.pre
           i == StoredAt(pre, lastOp.args[1])
       IN  IF i # 0
           THEN /\ lastOp.res = "ok"
                /\ posted = [pre EXCEPT ![i].numAccepted = pre[i].numAccepted + lastOp.args[2]]
           ELSE /\ lastOp.res = "NotFound"
                /\ posted = pre

\* -------------------------------------------------- claims: posts of a user
\* C39: FocusedPost.deleteUser(user) deletes every post authored by user and
\* no post authored by anyone else.
C39_DeletesPostsOfUser ==
    lastOp.op = "FocusedPost.deleteUser"
    => posts = SelectSeq(lastOp.ret.posts, LAMBDA p : p.author # lastOp.args[1])

====
